---- MODULE Spec2Model ----
(***************************************************************************)
(* A model of the iota editor: the rope-backed Buffer, the View, the       *)
(* multi-buffer Editor (src/iota-editor) and the server that shares one    *)
(* Editor between connection handlers (src/iota-server).                   *)
(*                                                                         *)
(* Text is a sequence of one-character strings; offsets are character      *)
(* offsets.  An Option<T> is a sequence: <<>> is None, <<v>> is Some(v).   *)
(***************************************************************************)
EXTENDS Integers, Sequences, FiniteSets, TLC

VARIABLES
    editor,          \* the Editor (the server's shared Arc<RwLock<Editor>>)
    disk,            \* the files: path -> Option<text>
    crashed,         \* a command panicked (todo!())
    pc,              \* each connection handler's position in handle_client
    sent,            \* the complete frames each client has written, in order
    rd,              \* how many of them the handler has read
    tail,            \* -1: client still connected; n >= 0: the client closed
                     \* after writing n bytes of a further frame
    message,         \* handle_client's decoded message
    protocol_events, \* handle_client's protocol_events
    response,        \* handle_client's response
    out,             \* the frames each handler has written to its client
    lock,            \* the RwLock: its writer and its readers
    listener,        \* the accept loop of Server::run
    applied,         \* history: the frames whose key was applied, in order
    afterKey,        \* history: the editor as each handler's last key left it
    call             \* history: the calls made (the buffer specification: where
                     \* the sequence started and what was called since; the
                     \* command specifications: the last command, what it found
                     \* and what it returned)

vars == <<editor, disk, crashed, pc, sent, rd, tail, message,
          protocol_events, response, out, lock, listener, applied, afterKey, call>>

edVars == <<editor, disk, crashed>>

srvVars == <<pc, sent, rd, tail, message, protocol_events, response, out, lock,
             listener, applied, afterKey>>

(***************************************************************************)
(* Bounds of the model.                                                    *)
(***************************************************************************)
\* most characters the editor's buffers hold together in the editor specification
MaxLen == 2
\* most views alive at once in the editor specification
MaxViews == 2
\* buffer and view ids handed out in the editor specification: 0 .. MaxIds-1
MaxIds == 3
\* largest repeat count of a move command
MaxCount == 2
\* frames all clients together send in the server specification
MaxFrames == 3
\* characters in all buffers together in the specification of the key table
MaxKeyLen == 1
\* view ids handed out in the specification of the key table
MaxKeyIds == 2
\* parts of a key specification (modifiers and key), tokens of a key sequence
MaxParts == 3
MaxTokens == 3
\* columns position_to_cursor is asked for, next to column 100
MaxColumn == 4

Chars == {"a", "\n"}
Paths == {"untitled.txt"}

Min(a, b) == IF a < b THEN a ELSE b
\* usize::saturating_sub
SatSub(a, b) == IF a > b THEN a - b ELSE 0

(***************************************************************************)
(* The rope (ropey::Rope), by what the buffer uses of it.                  *)
(***************************************************************************)
\* the number of line breaks among the first c characters
Breaks(r, c) == Cardinality({i \in 1..c : r[i] = "\n"})

len_chars(r) == Len(r)

len_lines(r) == Breaks(r, Len(r)) + 1

char_to_line(r, c) == Breaks(r, c)

\* the offset of the first character of line l; Len(r) for l = len_lines(r)
line_to_char(r, l) ==
    IF l = 0 THEN 0
    ELSE IF l >= len_lines(r) THEN Len(r)
    ELSE CHOOSE i \in 1..Len(r) : r[i] = "\n" /\ Breaks(r, i) = l

\* the characters of line l, its line break included
line(r, l) == SubSeq(r, line_to_char(r, l) + 1, line_to_char(r, l + 1))

RopeInsert(r, c, s) == SubSeq(r, 1, c) \o s \o SubSeq(r, c + 1, Len(r))

\* remove the characters at offsets from .. to-1
RopeRemove(r, from, to) == SubSeq(r, 1, from) \o SubSeq(r, to + 1, Len(r))

(***************************************************************************)
(* Buffer (src/iota-editor/buffer.rs)                                      *)
(***************************************************************************)
BufferNew == [rope |-> <<>>, filepath |-> <<>>, name |-> <<>>, modified |-> FALSE]

Position(l, c) == [line |-> l, column |-> c]

cursor_to_position(b, cursor) ==
    LET l == char_to_line(b.rope, cursor)
        line_start == line_to_char(b.rope, l)
    IN  Position(l, cursor - line_start)

position_to_cursor(b, pos) ==
    LET line_start == line_to_char(b.rope, pos.line)
        max_col == SatSub(Len(line(b.rope, pos.line)), 1)
    IN  line_start + Min(pos.column, max_col)

\* from_file that answers a failed read with an empty buffer on the path
from_file_empty_on_error(path, d, io) ==
    IF io = "ok" /\ d[path] # <<>>
    THEN [ok |-> TRUE,
          buffer |-> [rope |-> d[path][1], filepath |-> <<path>>,
                      name |-> <<path>>, modified |-> FALSE]]
    ELSE [ok |-> TRUE, buffer |-> [BufferNew EXCEPT !.filepath = <<path>>]]

\* Buffer::from_file: io is the outcome of the read
from_file(path, d, io) ==
    IF io = "ok" /\ d[path] # <<>>
    THEN [ok |-> TRUE,
          buffer |-> [rope |-> d[path][1], filepath |-> <<path>>,
                      name |-> <<path>>, modified |-> FALSE]]
    ELSE [ok |-> FALSE, buffer |-> BufferNew]

\* save that clears the modified flag before it knows that the write succeeded
save_clears_modified_first(b, d, io) ==
    IF b.filepath # <<>>
    THEN IF io = "ok"
         THEN [ok |-> TRUE, err |-> "",
               buffer |-> [b EXCEPT !.modified = FALSE],
               disk |-> [d EXCEPT ![b.filepath[1]] = <<b.rope>>]]
         ELSE [ok |-> TRUE, err |-> "", buffer |-> [b EXCEPT !.modified = FALSE], disk |-> d]
    ELSE [ok |-> FALSE, err |-> "No buffer path set", buffer |-> b, disk |-> d]

\* Buffer::save: io is the outcome of the write
save(b, d, io) ==
    IF b.filepath # <<>>
    THEN IF io = "ok"
         THEN [ok |-> TRUE, err |-> "",
               buffer |-> [b EXCEPT !.modified = FALSE],
               disk |-> [d EXCEPT ![b.filepath[1]] = <<b.rope>>]]
         ELSE [ok |-> FALSE, err |-> "Encountered IO error", buffer |-> b, disk |-> d]
    ELSE [ok |-> FALSE, err |-> "No buffer path set", buffer |-> b, disk |-> d]

\* save_as that takes the new path before it writes
save_as_sets_path_first(b, path, d, io) ==
    IF io = "ok"
    THEN [ok |-> TRUE, err |-> "",
          buffer |-> [b EXCEPT !.filepath = <<path>>, !.modified = FALSE],
          disk |-> [d EXCEPT ![path] = <<b.rope>>]]
    ELSE [ok |-> FALSE, err |-> "Encountered IO error",
          buffer |-> [b EXCEPT !.filepath = <<path>>], disk |-> d]

\* Buffer::save_as
save_as(b, path, d, io) ==
    IF io = "ok"
    THEN [ok |-> TRUE, err |-> "",
          buffer |-> [b EXCEPT !.filepath = <<path>>, !.modified = FALSE],
          disk |-> [d EXCEPT ![path] = <<b.rope>>]]
    ELSE [ok |-> FALSE, err |-> "Encountered IO error", buffer |-> b, disk |-> d]

insert_char(b, cursor, ch) ==
    [buffer |-> [b EXCEPT !.rope = RopeInsert(b.rope, cursor, <<ch>>), !.modified = TRUE],
     cursor |-> cursor + 1]

insert_string(b, cursor, s) ==
    [buffer |-> [b EXCEPT !.rope = RopeInsert(b.rope, cursor, s), !.modified = TRUE],
     cursor |-> cursor + Len(s)]

delete_char(b, cursor) ==
    IF cursor < len_chars(b.rope)
    THEN [ok |-> TRUE, cursor |-> cursor,
          buffer |-> [b EXCEPT !.rope = RopeRemove(b.rope, cursor, cursor + 1),
                               !.modified = TRUE]]
    ELSE [ok |-> FALSE, cursor |-> cursor, buffer |-> b]

\* backspace that removes the character and returns the cursor it was given
backspace_keeps_cursor(b, cursor) ==
    IF cursor > 0
    THEN [ok |-> TRUE, cursor |-> cursor,
          buffer |-> [b EXCEPT !.rope = RopeRemove(b.rope, cursor - 1, cursor),
                               !.modified = TRUE]]
    ELSE [ok |-> FALSE, cursor |-> cursor, buffer |-> b]

backspace(b, cursor) ==
    IF cursor > 0
    THEN [ok |-> TRUE, cursor |-> cursor - 1,
          buffer |-> [b EXCEPT !.rope = RopeRemove(b.rope, cursor - 1, cursor),
                               !.modified = TRUE]]
    ELSE [ok |-> FALSE, cursor |-> cursor, buffer |-> b]

\* the move_* functions return an Option<usize>: <<new_cursor>> or <<>>

\* move_left that saturates at the start of the text and always reports a move
move_left_saturating(b, cursor) == <<SatSub(cursor, 1)>>

move_left(b, cursor) == IF cursor > 0 THEN <<cursor - 1>> ELSE <<>>

\* move_right without its check against the buffer's length
move_right_unchecked(b, cursor) == <<cursor + 1>>

move_right(b, cursor) == IF cursor < len_chars(b.rope) THEN <<cursor + 1>> ELSE <<>>

\* move_up that forgets the column and lands at the start of the line above
move_up_to_line_start(b, cursor) ==
    LET pos == cursor_to_position(b, cursor) IN
    IF pos.line > 0
    THEN <<position_to_cursor(b, Position(pos.line - 1, 0))>>
    ELSE <<>>

move_up(b, cursor) ==
    LET pos == cursor_to_position(b, cursor) IN
    IF pos.line > 0
    THEN LET target_line == pos.line - 1
             line_len == Len(line(b.rope, target_line))
             target_col == Min(pos.column, SatSub(line_len, 1))
         IN  <<position_to_cursor(b, Position(target_line, target_col))>>
    ELSE <<>>

move_down(b, cursor) ==
    LET pos == cursor_to_position(b, cursor)
        last_line == SatSub(len_lines(b.rope), 1)
    IN
    IF pos.line < last_line
    THEN LET target_line == pos.line + 1
             line_len == Len(line(b.rope, target_line))
             target_col == Min(pos.column, SatSub(line_len, 1))
         IN  <<position_to_cursor(b, Position(target_line, target_col))>>
    ELSE <<>>

\* a line as get_lines returns it: without its trailing line break
StripBreak(s) == IF Len(s) > 0 /\ s[Len(s)] = "\n" THEN SubSeq(s, 1, Len(s) - 1) ELSE s

get_lines(b, start_line, count) ==
    LET end_line == Min(start_line + count, len_lines(b.rope)) IN
    [i \in 1..SatSub(end_line, start_line) |-> StripBreak(line(b.rope, start_line + i - 1))]

stats(b) == <<len_lines(b.rope), len_chars(b.rope)>>

(***************************************************************************)
(* View (src/iota-editor/view.rs)                                          *)
(***************************************************************************)
ViewNew(buffer_id) ==
    [buffer_id |-> buffer_id, cursor |-> 0, scroll_line |-> 0, scroll_column |-> 0,
     desired_column |-> <<>>]

set_cursor(v, cursor) == [v EXCEPT !.cursor = cursor, !.desired_column = <<>>]

update_cursor(v, cursor) == [v EXCEPT !.cursor = cursor]

(***************************************************************************)
(* Key model (src/input.rs), commands and events (editor.rs)               *)
(***************************************************************************)
Key(code, ch, ctrl, alt, shift, meta) ==
    [code |-> code, ch |-> ch, ctrl |-> ctrl, alt |-> alt, shift |-> shift, meta |-> meta]

PlainKey(code) == Key(code, "", FALSE, FALSE, FALSE, FALSE)
CharKey(ch) == Key("Char", ch, FALSE, FALSE, FALSE, FALSE)
CtrlKey(ch) == Key("Char", ch, TRUE, FALSE, FALSE, FALSE)

\* EditorInput: one record shape for every variant
Cmd(op, ch, n, path, s) == [op |-> op, ch |-> ch, n |-> n, path |-> path, s |-> s]
Plain(op) == Cmd(op, "", 0, "", <<>>)
InsertChar(ch) == Cmd("InsertChar", ch, 0, "", <<>>)
InsertString(s) == Cmd("InsertString", "", 0, "", s)
Move(op, n) == Cmd(op, "", n, "", <<>>)
SaveAs(path) == Cmd("SaveAs", "", 0, path, <<>>)
OpenFile(path) == Cmd("OpenFile", "", 0, path, <<>>)

\* EditorEvent
Shutdown == [ev |-> "Shutdown", msg |-> <<>>]
Redraw == [ev |-> "Redraw", msg |-> <<>>]
Error(msg) == [ev |-> "Error", msg |-> msg]
Info(msg) == [ev |-> "Info", msg |-> msg]

(***************************************************************************)
(* Editor (src/iota-editor/editor.rs)                                      *)
(***************************************************************************)
EditorNew ==
    [buffers |-> (0 :> BufferNew),
     views |-> (0 :> ViewNew(0)),
     view_order |-> <<0>>,
     current_view |-> 0,
     next_buffer_id |-> 1,
     next_view_id |-> 1]

get_current_view(e) == e.views[e.current_view]

get_current_buffer(e) == e.buffers[get_current_view(e).buffer_id]

\* create_buffer_with_view that leaves the current view where it was
create_buffer_with_view_keeps_current(e, buffer) ==
    LET buffer_id == e.next_buffer_id
        view_id == e.next_view_id
    IN  [e EXCEPT !.next_buffer_id = @ + 1,
                  !.next_view_id = @ + 1,
                  !.buffers = (buffer_id :> buffer) @@ @,
                  !.views = (view_id :> ViewNew(buffer_id)) @@ @,
                  !.view_order = Append(@, view_id)]

\* create_buffer_with_view that numbers a buffer and its view by how many there are
create_buffer_with_view_counts_live(e, buffer) ==
    LET buffer_id == Cardinality(DOMAIN e.buffers)
        view_id == Cardinality(DOMAIN e.views)
    IN  [e EXCEPT !.buffers = (buffer_id :> buffer) @@ @,
                  !.views = (view_id :> ViewNew(buffer_id)) @@ @,
                  !.view_order = Append(@, view_id),
                  !.current_view = view_id]

create_buffer_with_view(e, buffer) ==
    LET buffer_id == e.next_buffer_id
        view_id == e.next_view_id
    IN  [e EXCEPT !.next_buffer_id = @ + 1,
                  !.next_view_id = @ + 1,
                  !.buffers = (buffer_id :> buffer) @@ @,
                  !.views = (view_id :> ViewNew(buffer_id)) @@ @,
                  !.view_order = Append(@, view_id),
                  !.current_view = view_id]

\* Vec::iter().position: the first index (from 1) holding id, 0 when there is none
IndexOf(order, id) ==
    IF \E i \in 1..Len(order) : order[i] = id
    THEN CHOOSE i \in 1..Len(order) : order[i] = id /\ \A j \in 1..(i - 1) : order[j] # id
    ELSE 0

\* next_view that stops at the last view of the order
next_view_stops_at_last(e) ==
    LET current_idx == IndexOf(e.view_order, e.current_view) IN
    IF current_idx # 0 /\ current_idx < Len(e.view_order)
    THEN [e EXCEPT !.current_view = e.view_order[current_idx + 1]]
    ELSE e

next_view(e) ==
    LET current_idx == IndexOf(e.view_order, e.current_view) IN
    IF current_idx # 0
    THEN [e EXCEPT !.current_view = e.view_order[(current_idx % Len(e.view_order)) + 1]]
    ELSE e

prev_view(e) ==
    LET current_idx == IndexOf(e.view_order, e.current_view) IN
    IF current_idx # 0
    THEN [e EXCEPT !.current_view =
              e.view_order[IF current_idx = 1 THEN Len(e.view_order) ELSE current_idx - 1]]
    ELSE e

\* delete_buffer that removes the view and leaves its buffer behind
delete_buffer_keeps_buffer(e) ==
    IF Cardinality(DOMAIN e.views) > 1
    THEN LET order1 == SelectSeq(e.view_order, LAMBDA id : id # e.current_view)
         IN  [e EXCEPT !.views = [id \in DOMAIN e.views \ {e.current_view} |-> e.views[id]],
                       !.view_order = order1,
                       !.current_view = order1[Len(order1)]]
    ELSE e

\* delete_buffer that answers the deletion of the only view by emptying it
delete_buffer_empties_only_view(e) ==
    IF Cardinality(DOMAIN e.views) > 1
    THEN LET order1 == SelectSeq(e.view_order, LAMBDA id : id # e.current_view)
         IN  [e EXCEPT !.views = [id \in DOMAIN e.views \ {e.current_view} |-> e.views[id]],
                       !.view_order = order1,
                       !.buffers = [id \in DOMAIN e.buffers \ {get_current_view(e).buffer_id}
                                       |-> e.buffers[id]],
                       !.current_view = order1[Len(order1)]]
    ELSE [e EXCEPT !.buffers[get_current_view(e).buffer_id] = BufferNew,
                   !.views[e.current_view] = ViewNew(get_current_view(e).buffer_id)]

\* delete_buffer that goes on with the first view of the order, not the last
delete_buffer_to_first(e) ==
    LET current_buffer_id == get_current_view(e).buffer_id IN
    IF Cardinality(DOMAIN e.views) > 1
    THEN LET order1 == SelectSeq(e.view_order, LAMBDA id : id # e.current_view)
         IN  [e EXCEPT !.views = [id \in DOMAIN e.views \ {e.current_view} |-> e.views[id]],
                       !.view_order = order1,
                       !.buffers = [id \in DOMAIN e.buffers \ {current_buffer_id} |-> e.buffers[id]],
                       !.current_view = order1[1]]
    ELSE e

\* the DeleteBuffer arm of execute_command, on the editor alone
delete_buffer(e) ==
    LET current_buffer_id == get_current_view(e).buffer_id IN
    IF Cardinality(DOMAIN e.views) > 1
    THEN LET views1 == [id \in DOMAIN e.views \ {e.current_view} |-> e.views[id]]
             order1 == SelectSeq(e.view_order, LAMBDA id : id # e.current_view)
             buffer_in_use == \E id \in DOMAIN views1 : views1[id].buffer_id = current_buffer_id
             buffers1 == IF buffer_in_use THEN e.buffers
                         ELSE [id \in DOMAIN e.buffers \ {current_buffer_id} |-> e.buffers[id]]
         IN  [e EXCEPT !.views = views1,
                       !.view_order = order1,
                       !.buffers = buffers1,
                       !.current_view = order1[Len(order1)]]
    ELSE e

update_view_cursor(e, cursor) ==
    [e EXCEPT !.views[e.current_view] = set_cursor(@, cursor)]

update_view_cursor_sticky(e, cursor) ==
    [e EXCEPT !.views[e.current_view] = update_cursor(@, cursor)]

\* one step of a move command: the buffer's move function it names
MoveFn(b, op, cursor) ==
    CASE op = "MoveUp" -> move_up(b, cursor)
      [] op = "MoveDown" -> move_down(b, cursor)
      [] op = "MoveLeft" -> move_left(b, cursor)
      [] op = "MoveRight" -> move_right(b, cursor)

\* execute_movement that makes one step whatever the count
execute_movement_one_step(b, op, start_cursor, count) ==
    IF count = 0 THEN start_cursor
    ELSE LET r == MoveFn(b, op, start_cursor) IN
         IF r = <<>> THEN start_cursor ELSE r[1]

RECURSIVE execute_movement(_, _, _, _)
execute_movement(b, op, start_cursor, count) ==
    IF count = 0 THEN start_cursor
    ELSE LET r == MoveFn(b, op, start_cursor) IN
         IF r = <<>> THEN start_cursor
         ELSE execute_movement(b, op, r[1], count - 1)

\* what a command returns: the editor and the disk after it, its events, and
\* whether it panicked (todo!())
Outcome(e, d, evs) == [editor |-> e, disk |-> d, events |-> evs, panic |-> FALSE]

\* the edited buffer written over every buffer of the editor
WithBufferEverywhere(e, buffer_id, b) == [e EXCEPT !.buffers = [id \in DOMAIN @ |-> b]]

WithBuffer(e, buffer_id, b) == [e EXCEPT !.buffers[buffer_id] = b]

\* the arm of execute_command for the commands on the current view's buffer
edit_command(e, d, command) ==
    LET current_view == get_current_view(e)
        buffer_id == current_view.buffer_id
        current_cursor == current_view.cursor
        current_buffer == e.buffers[buffer_id]
    IN
    CASE command.op = "InsertChar" ->
           LET r == insert_char(current_buffer, current_cursor, command.ch) IN
           Outcome(update_view_cursor(WithBuffer(e, buffer_id, r.buffer), r.cursor), d, <<Redraw>>)
      [] command.op = "InsertString" ->
           LET r == insert_string(current_buffer, current_cursor, command.s) IN
           Outcome(update_view_cursor(WithBuffer(e, buffer_id, r.buffer), r.cursor), d, <<Redraw>>)
      [] command.op = "InsertNewLine" ->
           LET r == insert_char(current_buffer, current_cursor, "\n") IN
           Outcome(update_view_cursor(WithBuffer(e, buffer_id, r.buffer), r.cursor), d, <<Redraw>>)
      [] command.op = "DeleteChar" ->
           LET r == delete_char(current_buffer, current_cursor) IN
           Outcome(update_view_cursor(WithBuffer(e, buffer_id, r.buffer), r.cursor), d, <<Redraw>>)
      [] command.op = "Backspace" ->
           LET r == backspace(current_buffer, current_cursor) IN
           Outcome(update_view_cursor(WithBuffer(e, buffer_id, r.buffer), r.cursor), d, <<Redraw>>)
      [] command.op \in {"MoveUp", "MoveDown"} ->
           Outcome(update_view_cursor_sticky(e,
                       execute_movement(current_buffer, command.op, current_cursor, command.n)),
                   d, <<Redraw>>)
      [] command.op \in {"MoveLeft", "MoveRight"} ->
           Outcome(update_view_cursor(e,
                       execute_movement(current_buffer, command.op, current_cursor, command.n)),
                   d, <<Redraw>>)
      [] command.op \in {"DeleteRange", "Undo", "Redo"} ->
           [editor |-> e, disk |-> d, events |-> <<>>, panic |-> TRUE]

\* Editor::execute_command; io is the outcome of the file read or write it makes.
\* Buffer::save and save_as act on the buffer in place, so the editor holds the
\* buffer as they leave it, also when they return an error.
execute_command(e, d, command, io) ==
    CASE command.op = "NewBuffer" ->
           Outcome(create_buffer_with_view(e, BufferNew), d, <<Redraw>>)
      [] command.op = "DeleteBuffer" ->
           Outcome(delete_buffer(e), d,
                   IF Cardinality(DOMAIN e.views) > 1 THEN <<Redraw>> ELSE <<>>)
      [] command.op = "NextBuffer" -> Outcome(next_view(e), d, <<Redraw>>)
      [] command.op = "PreviousBuffer" -> Outcome(prev_view(e), d, <<Redraw>>)
      [] command.op = "OpenFile" ->
           LET r == from_file(command.path, d, io) IN
           IF r.ok
           THEN Outcome(create_buffer_with_view(e, r.buffer), d,
                        <<Info(<<"Opened", command.path>>), Redraw>>)
           ELSE Outcome(e, d, <<Error(<<"Failed to open", command.path, "Encountered IO error">>)>>)
      [] command.op = "Save" ->
           LET buffer_id == get_current_view(e).buffer_id
               r == save(e.buffers[buffer_id], d, io)
           IN  IF r.ok
               THEN Outcome(WithBuffer(e, buffer_id, r.buffer), r.disk, <<Info(<<"Saved">>)>>)
               ELSE Outcome(WithBuffer(e, buffer_id, r.buffer), r.disk,
                            <<Error(<<"Save failed", r.err>>)>>)
      [] command.op = "SaveAs" ->
           LET buffer_id == get_current_view(e).buffer_id
               r == save_as(e.buffers[buffer_id], command.path, d, io)
           IN  IF r.ok
               THEN Outcome(WithBuffer(e, buffer_id, r.buffer), r.disk,
                            <<Info(<<"Saved as", command.path>>)>>)
               ELSE Outcome(WithBuffer(e, buffer_id, r.buffer), r.disk,
                            <<Error(<<"Save as failed", command.path, r.err>>)>>)
      [] OTHER -> edit_command(e, d, command)

Ctrl(m) == m.ctrl /\ ~m.alt /\ ~m.meta

\* the key table with a character arm that lets Alt through
KeyCommand_alt_inserts(key) ==
    CASE key.code = "Char" /\ key.ch = "s" /\ Ctrl(key) -> <<Plain("Save")>>
      [] key.code = "Char" /\ key.ch = "w" /\ Ctrl(key) -> <<SaveAs("untitled.txt")>>
      [] key.code = "Char" /\ key.ch = "n" /\ Ctrl(key) -> <<Plain("NewBuffer")>>
      [] key.code = "Char" /\ key.ch = "d" /\ Ctrl(key) -> <<Plain("DeleteBuffer")>>
      [] key.code = "Char" /\ key.ch = "h" /\ Ctrl(key) -> <<Plain("PreviousBuffer")>>
      [] key.code = "Char" /\ key.ch = "l" /\ Ctrl(key) -> <<Plain("NextBuffer")>>
      [] key.code = "Left" -> <<Move("MoveLeft", 1)>>
      [] key.code = "Right" -> <<Move("MoveRight", 1)>>
      [] key.code = "Up" -> <<Move("MoveUp", 1)>>
      [] key.code = "Down" -> <<Move("MoveDown", 1)>>
      [] key.code = "Backspace" -> <<Plain("Backspace")>>
      [] key.code = "Delete" -> <<Plain("DeleteChar")>>
      [] key.code = "Enter" -> <<Plain("InsertNewLine")>>
      [] key.code = "Tab" -> <<InsertString(<<" ", " ", " ", " ">>)>>
      [] key.code = "Char" /\ ~key.ctrl /\ ~key.meta -> <<InsertChar(key.ch)>>
      [] OTHER -> <<>>

\* the key table of process_key: the command of a key, <<>> for an unhandled key.
\* Ctrl-c and Ctrl-r return before any command and are handled in process_key.
KeyCommand(key) ==
    CASE key.code = "Char" /\ key.ch = "s" /\ Ctrl(key) -> <<Plain("Save")>>
      [] key.code = "Char" /\ key.ch = "w" /\ Ctrl(key) -> <<SaveAs("untitled.txt")>>
      [] key.code = "Char" /\ key.ch = "n" /\ Ctrl(key) -> <<Plain("NewBuffer")>>
      [] key.code = "Char" /\ key.ch = "d" /\ Ctrl(key) -> <<Plain("DeleteBuffer")>>
      [] key.code = "Char" /\ key.ch = "h" /\ Ctrl(key) -> <<Plain("PreviousBuffer")>>
      [] key.code = "Char" /\ key.ch = "l" /\ Ctrl(key) -> <<Plain("NextBuffer")>>
      [] key.code = "Left" -> <<Move("MoveLeft", 1)>>
      [] key.code = "Right" -> <<Move("MoveRight", 1)>>
      [] key.code = "Up" -> <<Move("MoveUp", 1)>>
      [] key.code = "Down" -> <<Move("MoveDown", 1)>>
      [] key.code = "Backspace" -> <<Plain("Backspace")>>
      [] key.code = "Delete" -> <<Plain("DeleteChar")>>
      [] key.code = "Enter" -> <<Plain("InsertNewLine")>>
      [] key.code = "Tab" -> <<InsertString(<<" ", " ", " ", " ">>)>>
      [] key.code = "Char" /\ ~key.ctrl /\ ~key.alt /\ ~key.meta -> <<InsertChar(key.ch)>>
      [] OTHER -> <<>>

\* process_key without the arm for Ctrl-c
process_key_without_shutdown(e, d, key, io) ==
    IF key.code = "Char" /\ key.ch = "r" /\ Ctrl(key) THEN Outcome(e, d, <<Redraw>>)
    ELSE LET command == KeyCommand(key) IN
         IF command # <<>> THEN execute_command(e, d, command[1], io)
         ELSE Outcome(e, d, <<>>)

\* Editor::process_key
process_key(e, d, key, io) ==
    IF key.code = "Char" /\ key.ch = "c" /\ Ctrl(key) THEN Outcome(e, d, <<Shutdown>>)
    ELSE IF key.code = "Char" /\ key.ch = "r" /\ Ctrl(key) THEN Outcome(e, d, <<Redraw>>)
    ELSE LET command == KeyCommand(key) IN
         IF command # <<>> THEN execute_command(e, d, command[1], io)
         ELSE Outcome(e, d, <<>>)

\* RenderData and EditorInfo
get_render_data(e, viewport_start, viewport_height) ==
    LET view == get_current_view(e)
        buffer == e.buffers[view.buffer_id]
    IN  [lines |-> get_lines(buffer, viewport_start, viewport_height),
         cursor |-> cursor_to_position(buffer, view.cursor),
         viewport_start |-> view.scroll_line,
         viewport_height |-> viewport_height]

get_info(e) ==
    LET view == get_current_view(e)
        buffer == e.buffers[view.buffer_id]
    IN  [cursor |-> cursor_to_position(buffer, view.cursor),
         filepath |-> buffer.filepath,
         name |-> buffer.name,
         modified |-> buffer.modified,
         line_count |-> stats(buffer)[1],
         char_count |-> stats(buffer)[2]]

\* adjust_scroll that scrolls a whole viewport down when the cursor is below it
adjust_scroll_by_page(e, viewport_width, viewport_height) ==
    LET view == get_current_view(e)
        cursor_pos == cursor_to_position(e.buffers[view.buffer_id], view.cursor)
        scroll_line ==
            IF cursor_pos.line < view.scroll_line THEN cursor_pos.line
            ELSE IF cursor_pos.line >= view.scroll_line + viewport_height
                 THEN view.scroll_line + viewport_height + viewport_height
                 ELSE view.scroll_line
        scroll_column ==
            IF cursor_pos.column < view.scroll_column THEN cursor_pos.column
            ELSE IF cursor_pos.column >= view.scroll_column + viewport_width
                 THEN SatSub(cursor_pos.column, SatSub(viewport_width, 1))
                 ELSE view.scroll_column
    IN  [e EXCEPT !.views[e.current_view].scroll_line = scroll_line,
                  !.views[e.current_view].scroll_column = scroll_column]

adjust_scroll(e, viewport_width, viewport_height) ==
    LET view == get_current_view(e)
        cursor_pos == cursor_to_position(e.buffers[view.buffer_id], view.cursor)
        scroll_line ==
            IF cursor_pos.line < view.scroll_line THEN cursor_pos.line
            ELSE IF cursor_pos.line >= view.scroll_line + viewport_height
                 THEN SatSub(cursor_pos.line, SatSub(viewport_height, 1))
                 ELSE view.scroll_line
        scroll_column ==
            IF cursor_pos.column < view.scroll_column THEN cursor_pos.column
            ELSE IF cursor_pos.column >= view.scroll_column + viewport_width
                 THEN SatSub(cursor_pos.column, SatSub(viewport_width, 1))
                 ELSE view.scroll_column
    IN  [e EXCEPT !.views[e.current_view].scroll_line = scroll_line,
                  !.views[e.current_view].scroll_column = scroll_column]

(***************************************************************************)
(* The editor on its own: any sequence of keys and commands from           *)
(* Editor::new.                                                            *)
(***************************************************************************)
Conns == {"A", "B"}

NoLock == [writer |-> <<>>, readers |-> {}]

Keys ==
    {CharKey(ch) : ch \in Chars}
    \cup {CtrlKey(ch) : ch \in {"c", "r", "s", "w", "n", "d", "h", "l", "x"}}
    \cup {PlainKey(code) : code \in {"Left", "Right", "Up", "Down", "Backspace", "Delete",
                                     "Enter", "Tab", "Home"}}
    \cup {Key("Char", "a", FALSE, TRUE, FALSE, FALSE)}

\* the commands no key is bound to (the others run through process_key)
Commands ==
    {Plain(op) : op \in {"DeleteRange", "Undo", "Redo"}}
    \cup {InsertString(<<c1, c2>>) : c1 \in Chars, c2 \in Chars}
    \cup {Move(op, n) : op \in {"MoveUp", "MoveDown", "MoveLeft", "MoveRight"},
                        n \in (0..MaxCount) \ {1}}
    \cup {SaveAs(path) : path \in Paths}
    \cup {OpenFile(path) : path \in Paths}

\* the files the editor may find on disk when it starts
InitialFiles == {<<>>, <<<<"a", "\n">>>>}

RECURSIVE SumLen(_, _)
SumLen(bs, ids) ==
    IF ids = {} THEN 0
    ELSE LET id == CHOOSE x \in ids : TRUE IN Len(bs[id].rope) + SumLen(bs, ids \ {id})

TotalLen(e) == SumLen(e.buffers, DOMAIN e.buffers)

\* the bounds of the editor specification
WithinBounds(e) ==
    /\ TotalLen(e) <= MaxLen
    /\ Cardinality(DOMAIN e.views) <= MaxViews
    /\ e.next_view_id <= MaxIds

ServerIdle ==
    /\ pc = [c \in Conns |-> "closed"]
    /\ sent = [c \in Conns |-> <<>>]
    /\ rd = [c \in Conns |-> 0]
    /\ tail = [c \in Conns |-> 0]
    /\ message = [c \in Conns |-> <<>>]
    /\ protocol_events = [c \in Conns |-> <<>>]
    /\ response = [c \in Conns |-> <<>>]
    /\ out = [c \in Conns |-> <<>>]
    /\ lock = NoLock
    /\ listener = "accepting"
    /\ applied = <<>>
    /\ afterKey = [c \in Conns |-> <<>>]

Init ==
    /\ editor = EditorNew
    /\ disk \in [Paths -> InitialFiles]
    /\ crashed = FALSE
    /\ ServerIdle
    /\ call = <<>>

\* the state after a call that returned (or panicked with) r
Returned(r) ==
    /\ WithinBounds(r.editor)
    /\ editor' = r.editor
    /\ disk' = r.disk
    /\ crashed' = r.panic

\* the outcomes of the file read or write a key's command makes, if it makes one
IoOutcomes(key) ==
    IF key.code = "Char" /\ key.ch \in {"s", "w"} /\ Ctrl(key) THEN {"ok", "fail"} ELSE {"ok"}

ProcessKey ==
    /\ ~crashed
    /\ \E key \in Keys : \E io \in IoOutcomes(key) :
           Returned(process_key(editor, disk, key, io))
    /\ UNCHANGED <<srvVars, call>>

\* execute_command, for the commands no key is bound to
ExecuteCommand ==
    /\ ~crashed
    /\ \E command \in Commands :
         \E io \in IF command.op \in {"SaveAs", "OpenFile"} THEN {"ok", "fail"} ELSE {"ok"} :
           Returned(execute_command(editor, disk, command, io))
    /\ UNCHANGED <<srvVars, call>>

Next == ProcessKey \/ ExecuteCommand

Spec == Init /\ [][Next]_vars

(***************************************************************************)
(* Protocol messages (src/iota-protocol/lib.rs, as src/iota-server uses    *)
(* them) and the server (src/iota-server/lib.rs)                           *)
(***************************************************************************)
\* the bytes of a length prefix
PrefixLen == 4
\* the viewport height handle_client asks get_render_data for
ViewportHeight == 24

NoRender == [lines |-> <<>>, cursor |-> Position(0, 0), viewport_start |-> 0,
             viewport_height |-> 0]
NoInfo == [cursor |-> Position(0, 0), filepath |-> <<>>, name |-> <<>>, modified |-> FALSE,
           line_count |-> 0, char_count |-> 0]

\* Message: one record shape for every variant
Msg(type, key, evs, render_data, info) ==
    [type |-> type, key |-> key, events |-> evs, render_data |-> render_data, info |-> info]
Bare(type) == Msg(type, PlainKey(""), <<>>, NoRender, NoInfo)
KeyPress(key) == Msg("KeyPress", key, <<>>, NoRender, NoInfo)
StateUpdate(evs, render_data, info) == Msg("StateUpdate", PlainKey(""), evs, render_data, info)
ClientStart == Bare("ClientStart")
ServerStatusCheck == Bare("ServerStatusCheck")
ServerStatusOk == Bare("ServerStatusOk")
\* a payload that is no encoding of a message
Garbage == Bare("Garbage")

\* Message::decode of a frame's payload
Decode(payload) ==
    IF payload.type = "Garbage" THEN [ok |-> FALSE, message |-> Bare("None")]
    ELSE [ok |-> TRUE, message |-> payload]

\* the keys and the payloads the clients of the server specification send
ClientKeys == {CharKey("a")}

Payloads ==
    {KeyPress(key) : key \in ClientKeys}
    \cup {ClientStart, ServerStatusCheck, ServerStatusOk, Garbage}

FramesSent == Len(sent["A"]) + Len(sent["B"])

InitServer ==
    /\ editor = EditorNew
    /\ disk = [path \in Paths |-> <<>>]
    /\ crashed = FALSE
    /\ pc = [c \in Conns |-> "connecting"]
    /\ sent = [c \in Conns |-> <<>>]
    /\ rd = [c \in Conns |-> 0]
    /\ tail = [c \in Conns |-> -1]
    /\ message = [c \in Conns |-> Bare("None")]
    /\ protocol_events = [c \in Conns |-> <<>>]
    /\ response = [c \in Conns |-> Bare("None")]
    /\ out = [c \in Conns |-> <<>>]
    /\ lock = NoLock
    /\ listener = "accepting"
    /\ applied = <<>>
    /\ afterKey = [c \in Conns |-> EditorNew]
    /\ call = <<>>

\* a client writes one complete frame on its accepted connection
ClientSend(c) ==
    /\ pc[c] # "connecting"
    /\ tail[c] = -1
    /\ FramesSent < MaxFrames
    /\ \E payload \in Payloads : sent' = [sent EXCEPT ![c] = Append(@, payload)]
    /\ UNCHANGED <<call, edVars, pc, rd, tail, message, protocol_events, response, out, lock,
                   listener, applied, afterKey>>

\* a client closes its connection: at a frame boundary (0 bytes), inside a length
\* prefix (1 .. PrefixLen-1 bytes) or inside a frame's body (PrefixLen bytes).
\* The handler sees the end of the stream only once it has read all that came
\* before it, so the close is taken at that moment.
ClientClose(c) ==
    /\ tail[c] = -1
    /\ pc[c] = "read_len"
    /\ rd[c] = Len(sent[c])
    /\ \E n \in 0..PrefixLen : tail' = [tail EXCEPT ![c] = n]
    /\ UNCHANGED <<call, edVars, pc, sent, rd, message, protocol_events, response, out, lock,
                   listener, applied, afterKey>>

\* Server::run: accept a connection and spawn its handler
Accept(c) ==
    /\ listener = "accepting"
    /\ pc[c] = "connecting"
    /\ pc' = [pc EXCEPT ![c] = "read_len"]
    /\ UNCHANGED <<call, edVars, sent, rd, tail, message, protocol_events, response, out, lock,
                   listener, applied, afterKey>>

\* a handler's error taking the accept loop down with it
FailStopsListener(c) ==
    /\ pc' = [pc EXCEPT ![c] = "failed"]
    /\ listener' = "stopped"

\* handle_client returns Err: the spawned task logs it and ends
Fail(c) ==
    /\ pc' = [pc EXCEPT ![c] = "failed"]
    /\ listener' = listener

\* every end of the stream reported as an error
FinishAsError(c) ==
    /\ pc' = [pc EXCEPT ![c] = "failed"]
    /\ listener' = listener

\* handle_client returns Ok(())
Finish(c) ==
    /\ pc' = [pc EXCEPT ![c] = "done"]
    /\ listener' = listener

\* read_exact of the length prefix
ReadLen(c) ==
    /\ pc[c] = "read_len"
    /\ IF rd[c] < Len(sent[c]) \/ tail[c] = PrefixLen
       THEN pc' = [pc EXCEPT ![c] = "read_body"] /\ listener' = listener
       ELSE /\ tail[c] \in 0..(PrefixLen - 1)     \* UnexpectedEof
            /\ Finish(c)
    /\ UNCHANGED <<call, edVars, sent, rd, tail, message, protocol_events, response, out, lock,
                   applied, afterKey>>

\* the match with the KeyPress arm falling through to the wildcard arm
DispatchDropsKey(c, m) ==
    CASE m.type = "ClientStart" ->
           pc' = [pc EXCEPT ![c] = "lock_read"] /\ response' = response
      [] m.type = "ServerStatusCheck" ->
           pc' = [pc EXCEPT ![c] = "send"] /\ response' = [response EXCEPT ![c] = ServerStatusOk]
      [] OTHER ->
           pc' = [pc EXCEPT ![c] = "read_len"] /\ response' = response

\* where the match on the decoded message goes
Dispatch(c, m) ==
    CASE m.type = "KeyPress" ->
           pc' = [pc EXCEPT ![c] = "lock_write"] /\ response' = response
      [] m.type = "ClientStart" ->
           pc' = [pc EXCEPT ![c] = "lock_read"] /\ response' = response
      [] m.type = "ServerStatusCheck" ->
           pc' = [pc EXCEPT ![c] = "send"] /\ response' = [response EXCEPT ![c] = ServerStatusOk]
      [] OTHER ->
           pc' = [pc EXCEPT ![c] = "read_len"] /\ response' = response

\* read_exact of the body, Message::decode and the match on the message
ReadBody(c) ==
    /\ pc[c] = "read_body"
    /\ IF rd[c] < Len(sent[c])
       THEN LET r == Decode(sent[c][rd[c] + 1]) IN
            /\ rd' = [rd EXCEPT ![c] = @ + 1]
            /\ IF r.ok
               THEN /\ message' = [message EXCEPT ![c] = r.message]
                    /\ Dispatch(c, r.message)
                    /\ listener' = listener
               ELSE /\ Fail(c)
                    /\ UNCHANGED <<message, response>>
       ELSE /\ tail[c] = PrefixLen                 \* the body is cut short
            /\ Fail(c)
            /\ UNCHANGED <<rd, message, response>>
    /\ UNCHANGED <<call, edVars, sent, tail, protocol_events, out, lock, applied, afterKey>>

\* a write acquisition that does not wait for the lock to be free
AcquireWriteUnguarded(c) ==
    /\ pc[c] = "lock_write"
    /\ lock' = [lock EXCEPT !.writer = <<c>>]
    /\ pc' = [pc EXCEPT ![c] = "process_key"]
    /\ UNCHANGED <<call, edVars, sent, rd, tail, message, protocol_events, response, out,
                   listener, applied, afterKey>>

\* editor.write().await
AcquireWrite(c) ==
    /\ pc[c] = "lock_write"
    /\ lock = NoLock
    /\ lock' = [lock EXCEPT !.writer = <<c>>]
    /\ pc' = [pc EXCEPT ![c] = "process_key"]
    /\ UNCHANGED <<call, edVars, sent, rd, tail, message, protocol_events, response, out,
                   listener, applied, afterKey>>

\* editor.process_key(key).await, under the write guard
HandleKey(c) ==
    /\ pc[c] = "process_key"
    /\ \E io \in IoOutcomes(message[c].key) :
         LET r == process_key(editor, disk, message[c].key, io) IN
         /\ editor' = r.editor
         /\ disk' = r.disk
         /\ protocol_events' = [protocol_events EXCEPT ![c] = r.events]
         /\ afterKey' = [afterKey EXCEPT ![c] = r.editor]
    /\ applied' = Append(applied, <<c, rd[c]>>)
    /\ pc' = [pc EXCEPT ![c] = "snapshot"]
    /\ UNCHANGED <<call, crashed, sent, rd, tail, message, response, out, lock, listener>>

\* the StateUpdate of the editor as it is now
Snapshot(e, evs) ==
    StateUpdate(evs, get_render_data(e, get_current_view(e).scroll_line, ViewportHeight),
                get_info(e))

\* a KeyPress arm whose write guard outlives the arm
SnapshotKeyKeepsGuard(c) ==
    /\ pc[c] = "snapshot"
    /\ IF editor.current_view \in DOMAIN editor.views
       THEN /\ response' = [response EXCEPT ![c] = Snapshot(editor, protocol_events[c])]
            /\ pc' = [pc EXCEPT ![c] = "send"]
            /\ listener' = listener
       ELSE Fail(c) /\ response' = response
    /\ UNCHANGED <<call, edVars, sent, rd, tail, message, protocol_events, out, applied, afterKey,
                   lock>>

\* the rest of the KeyPress arm: the snapshot, then the guard is dropped
SnapshotKey(c) ==
    /\ pc[c] = "snapshot"
    /\ IF editor.current_view \in DOMAIN editor.views
       THEN /\ response' = [response EXCEPT ![c] = Snapshot(editor, protocol_events[c])]
            /\ pc' = [pc EXCEPT ![c] = "send"]
            /\ listener' = listener
       ELSE Fail(c) /\ response' = response        \* "No current view"
    /\ lock' = [lock EXCEPT !.writer = <<>>]
    /\ UNCHANGED <<call, edVars, sent, rd, tail, message, protocol_events, out, applied, afterKey>>

\* editor.read().await
AcquireRead(c) ==
    /\ pc[c] = "lock_read"
    /\ lock.writer = <<>>
    /\ lock' = [lock EXCEPT !.readers = @ \cup {c}]
    /\ pc' = [pc EXCEPT ![c] = "snapshot_read"]
    /\ UNCHANGED <<call, edVars, sent, rd, tail, message, protocol_events, response, out,
                   listener, applied, afterKey>>

\* the ClientStart arm answering with the events of the connection's last key
SnapshotStartStaleEvents(c) ==
    /\ pc[c] = "snapshot_read"
    /\ response' = [response EXCEPT ![c] = Snapshot(editor, protocol_events[c])]
    /\ pc' = [pc EXCEPT ![c] = "send"]
    /\ listener' = listener
    /\ lock' = [lock EXCEPT !.readers = @ \ {c}]
    /\ UNCHANGED <<call, edVars, sent, rd, tail, message, protocol_events, out, applied, afterKey>>

\* the ClientStart arm: the snapshot, then the guard is dropped
SnapshotStart(c) ==
    /\ pc[c] = "snapshot_read"
    /\ IF editor.current_view \in DOMAIN editor.views
       THEN /\ response' = [response EXCEPT ![c] = Snapshot(editor, <<>>)]
            /\ pc' = [pc EXCEPT ![c] = "send"]
            /\ listener' = listener
       ELSE Fail(c) /\ response' = response
    /\ lock' = [lock EXCEPT !.readers = @ \ {c}]
    /\ UNCHANGED <<call, edVars, sent, rd, tail, message, protocol_events, out, applied, afterKey>>

\* a handler that goes on to the next frame without writing its response
SendSkipped(c) ==
    /\ pc[c] = "send"
    /\ pc' = [pc EXCEPT ![c] = "read_len"]
    /\ UNCHANGED <<call, edVars, sent, rd, tail, message, protocol_events, response, out, lock,
                   listener, applied, afterKey>>

\* response.encode() and write_all
Send(c) ==
    /\ pc[c] = "send"
    /\ out' = [out EXCEPT ![c] = Append(@, response[c])]
    /\ pc' = [pc EXCEPT ![c] = "read_len"]
    /\ UNCHANGED <<call, edVars, sent, rd, tail, message, protocol_events, response, lock,
                   listener, applied, afterKey>>

\* a read or a write of the connection fails with an I/O error other than
\* end-of-stream: the peer reset the connection, or is gone when the response
\* is written
ConnError(c) ==
    /\ \/ pc[c] \in {"read_len", "read_body"} /\ tail[c] = -1
       \/ pc[c] = "send"
    /\ Fail(c)
    /\ UNCHANGED <<call, edVars, sent, rd, tail, message, protocol_events, response, out, lock,
                   applied, afterKey>>

NextServer ==
    \E c \in Conns :
        \/ ClientSend(c)
        \/ ClientClose(c)
        \/ Accept(c)
        \/ ReadLen(c)
        \/ ReadBody(c)
        \/ AcquireWrite(c)
        \/ HandleKey(c)
        \/ SnapshotKey(c)
        \/ AcquireRead(c)
        \/ SnapshotStart(c)
        \/ Send(c)
        \/ ConnError(c)

SpecServer == InitServer /\ [][NextServer]_vars

(***************************************************************************)
(* Two clients, one sending a burst of edits before the other sends        *)
(* anything: handle_client as above, the clients scripted.                 *)
(***************************************************************************)
\* the edits of client A's burst
BurstLen == 2

\* A writes its burst of edit keys; B writes a key only once the whole burst
\* has been written
BurstSend(c) ==
    /\ pc[c] # "connecting"
    /\ tail[c] = -1
    /\ FramesSent < MaxFrames
    /\ c = "B" => Len(sent["A"]) >= BurstLen
    /\ \E key \in ClientKeys : sent' = [sent EXCEPT ![c] = Append(@, KeyPress(key))]
    /\ UNCHANGED <<call, edVars, pc, rd, tail, message, protocol_events, response, out, lock,
                   listener, applied, afterKey>>

NextBurst ==
    \E c \in Conns :
        \/ BurstSend(c)
        \/ ClientClose(c)
        \/ Accept(c)
        \/ ReadLen(c)
        \/ ReadBody(c)
        \/ AcquireWrite(c)
        \/ HandleKey(c)
        \/ SnapshotKey(c)
        \/ Send(c)
        \/ ConnError(c)

SpecBurst == InitServer /\ [][NextBurst]_vars

(***************************************************************************)
(* The Buffer on its own: calls of its inserts, of backspace, of the        *)
(* vertical moves and of the position conversions on one buffer, each at   *)
(* the cursor the call before returned, from any small text and cursor.    *)
(***************************************************************************)
\* longest text a buffer specification starts from
MaxStart == 3
\* longest text its inserts grow a buffer to
MaxText == 3
\* most calls in one sequence
MaxCalls == 4

\* the texts of at most n characters
RECURSIVE Texts(_)
Texts(n) ==
    IF n = 0 THEN {<<>>}
    ELSE Texts(n - 1) \cup {Append(t, ch) : t \in {u \in Texts(n - 1) : Len(u) = n - 1}, ch \in Chars}

\* "Line 1\nLine 2\nLine 3"
ExampleText ==
    <<"L", "i", "n", "e", " ", "1", "\n", "L", "i", "n", "e", " ", "2", "\n",
      "L", "i", "n", "e", " ", "3">>

\* the strings the buffer specification inserts
InsertStrings == {<<>>, <<"a", "\n">>, <<"\n", "a">>}

\* one call in the log: the function and the characters it inserted or removed
Called(op, n) == [op |-> op, n |-> n]

InitBuffer ==
    /\ editor = EditorNew
    /\ disk = [path \in Paths |-> <<>>]
    /\ crashed = FALSE
    /\ ServerIdle
    /\ \E t \in Texts(MaxStart) : \E c \in 0..Len(t) :
         call = [buffer |-> [BufferNew EXCEPT !.rope = t], cursor |-> c,
                 start |-> [rope |-> t, cursor |-> c], log |-> <<>>,
                 pos |-> <<>>, of |-> 0]

\* the state after a call of op that left buffer b and cursor c
CallStep(op, n, b, c) ==
    /\ call' = [call EXCEPT !.buffer = b, !.cursor = c, !.log = Append(@, Called(op, n))]
    /\ UNCHANGED <<edVars, srvVars>>

CallInsertChar ==
    /\ Len(call.log) < MaxCalls
    /\ Len(call.buffer.rope) < MaxText
    /\ \E ch \in Chars :
         LET r == insert_char(call.buffer, call.cursor, ch) IN
         CallStep("insert_char", 1, r.buffer, r.cursor)

CallInsertString ==
    /\ Len(call.log) < MaxCalls
    /\ \E s \in InsertStrings :
         /\ Len(call.buffer.rope) + Len(s) <= MaxText
         /\ LET r == insert_string(call.buffer, call.cursor, s) IN
            CallStep("insert_string", Len(s), r.buffer, r.cursor)

\* the example text, into a new buffer
CallInsertExample ==
    /\ call.log = <<>>
    /\ call.buffer = BufferNew
    /\ LET r == insert_string(call.buffer, call.cursor, ExampleText) IN
       CallStep("insert_string", Len(ExampleText), r.buffer, r.cursor)

CallBackspace ==
    /\ Len(call.log) < MaxCalls
    /\ LET r == backspace(call.buffer, call.cursor) IN
       CallStep("backspace", IF r.ok THEN 1 ELSE 0, r.buffer, r.cursor)

\* a move function; the caller keeps its cursor when the function returns None
CallMove(op) ==
    /\ Len(call.log) < MaxCalls
    /\ LET r == MoveFn(call.buffer, op, call.cursor) IN
       CallStep(op, 0, call.buffer, IF r = <<>> THEN call.cursor ELSE r[1])

CallCursorToPosition ==
    /\ Len(call.log) < MaxCalls
    /\ call' = [call EXCEPT !.pos = <<cursor_to_position(call.buffer, call.cursor)>>,
                            !.of = call.cursor,
                            !.log = Append(@, Called("cursor_to_position", 0))]
    /\ UNCHANGED <<edVars, srvVars>>

\* position_to_cursor of the position the last cursor_to_position returned;
\* Rope::line_to_char and Rope::line need a line of the text
CallPositionToCursor ==
    /\ Len(call.log) < MaxCalls
    /\ call.pos # <<>>
    /\ call.pos[1].line < len_lines(call.buffer.rope)
    /\ CallStep("position_to_cursor", 0, call.buffer,
                position_to_cursor(call.buffer, call.pos[1]))

NextBuffer ==
    \/ CallInsertChar
    \/ CallInsertString
    \/ CallInsertExample
    \/ CallBackspace
    \/ \E op \in {"MoveUp", "MoveDown"} : CallMove(op)
    \/ CallCursorToPosition
    \/ CallPositionToCursor

SpecBuffer == InitBuffer /\ [][NextBuffer]_vars

(***************************************************************************)
(* The editor's commands with their results: any sequence of calls of      *)
(* execute_command from Editor::new, the last call kept with the editor    *)
(* and the disk it found and the events it returned.                       *)
(***************************************************************************)
\* the commands of the command specification: the buffer and file commands,
\* the unsupported commands, and of the edits and moves one each
AllCommands ==
    {Plain(op) : op \in {"NewBuffer", "DeleteBuffer", "NextBuffer", "PreviousBuffer", "Save",
                         "Backspace", "DeleteRange", "Undo", "Redo"}}
    \cup {InsertChar("a"), Move("MoveLeft", 1)}
    \cup {SaveAs(path) : path \in Paths}
    \cup {OpenFile(path) : path \in Paths}

\* the outcomes of the file read or write a command makes, if it makes one
CommandIo(command) ==
    IF command.op \in {"Save", "SaveAs", "OpenFile"} THEN {"ok", "fail"} ELSE {"ok"}

InitCommand ==
    /\ editor = EditorNew
    /\ disk \in [Paths -> InitialFiles]
    /\ crashed = FALSE
    /\ ServerIdle
    /\ call = [command |-> Plain("None"), io |-> "ok", editor |-> editor, disk |-> disk,
               events |-> <<>>]

\* one call of execute_command with a command of the set given, within the
\* bounds given; a panic (todo!()) ends the program
Run(commands, max_views, max_ids, max_len) ==
    /\ ~crashed
    /\ \E command \in commands : \E io \in CommandIo(command) :
         LET r == execute_command(editor, disk, command, io) IN
         /\ Cardinality(DOMAIN r.editor.views) <= max_views
         /\ r.editor.next_view_id <= max_ids
         /\ TotalLen(r.editor) <= max_len
         /\ editor' = r.editor
         /\ disk' = r.disk
         /\ crashed' = r.panic
         /\ call' = [command |-> command, io |-> io, editor |-> editor, disk |-> disk,
                     events |-> r.events]
    /\ UNCHANGED srvVars

RunCommand == Run(AllCommands, MaxViews, MaxIds, MaxLen)

NextCommand == RunCommand

SpecCommand == InitCommand /\ [][NextCommand]_vars

(***************************************************************************)
(* The same with more views and no files: the commands that create,        *)
(* delete and cycle views.                                                 *)
(***************************************************************************)
\* most views alive at once in the view specification
MaxManyViews == 3
\* buffer and view ids handed out in the view specification: 0 .. MaxManyIds-1
MaxManyIds == 5

ViewCommands ==
    {Plain(op) : op \in {"NewBuffer", "DeleteBuffer", "NextBuffer", "PreviousBuffer"}}
    \cup {InsertChar("a"), Move("MoveLeft", 1)}

InitViews ==
    /\ editor = EditorNew
    /\ disk = [path \in Paths |-> <<>>]
    /\ crashed = FALSE
    /\ ServerIdle
    /\ call = [command |-> Plain("None"), io |-> "ok", editor |-> editor, disk |-> disk,
               events |-> <<>>]

RunViewCommand == Run(ViewCommands, MaxManyViews, MaxManyIds, MaxLen)

NextViews == RunViewCommand

SpecViews == InitViews /\ [][NextViews]_vars

(***************************************************************************)
(* Specification of the key table: process_key on keys of every code and   *)
(* every combination of modifiers, with the key and the editor before it   *)
(* kept in call                                                            *)
(***************************************************************************)
\* characters of chords of process_key, an unbound one (x) and text
KeyChars == {"a", "c", "r", "s", "n", "d", "l", "x"}

\* KeyCode variants: the ones process_key has an arm for and three it has not
KeyCodes == {"Left", "Right", "Up", "Down", "Backspace", "Delete", "Enter", "Tab",
             "Home", "Escape", "F"}

\* character keys with every combination of Ctrl, Alt and Meta and with Shift
\* alone, the other keys bare and with Ctrl
AllKeys ==
    {Key("Char", ch, ctrl, alt, FALSE, meta) :
        ch \in KeyChars, ctrl \in BOOLEAN, alt \in BOOLEAN, meta \in BOOLEAN}
    \cup {Key("Char", ch, FALSE, FALSE, TRUE, FALSE) : ch \in KeyChars}
    \cup {Key(code, "", ctrl, FALSE, FALSE, FALSE) : code \in KeyCodes, ctrl \in BOOLEAN}

InitKeys ==
    /\ editor = EditorNew
    /\ disk = [path \in Paths |-> <<>>]
    /\ crashed = FALSE
    /\ ServerIdle
    /\ call = [key |-> PlainKey("None"), io |-> "ok", editor |-> editor, disk |-> disk,
               events |-> <<>>]

PressKey ==
    /\ ~crashed
    /\ \E key \in AllKeys : \E io \in IoOutcomes(key) :
         LET r == process_key(editor, disk, key, io) IN
         /\ Cardinality(DOMAIN r.editor.views) <= MaxViews
         /\ r.editor.next_view_id <= MaxKeyIds
         /\ TotalLen(r.editor) <= MaxKeyLen
         /\ editor' = r.editor
         /\ disk' = r.disk
         /\ crashed' = r.panic
         /\ call' = [key |-> key, io |-> io, editor |-> editor, disk |-> disk,
                     events |-> r.events]
    /\ UNCHANGED srvVars

NextKeys == PressKey

SpecKeys == InitKeys /\ [][NextKeys]_vars

(***************************************************************************)
(* Wire format (src/iota-protocol/lib.rs): Message::encode and             *)
(* Message::decode byte by byte. The payload is what the derived Encode    *)
(* and Decode of the message types give under bincode's standard           *)
(* configuration: enum variants and lengths as variable-length integers,   *)
(* little-endian; fields in the order of their declaration.                *)
(***************************************************************************)
\* the UTF-8 byte of the characters of the wire specification
Utf8 == ("a" :> 97) @@ ("c" :> 99) @@ ("\n" :> 10) @@ (" " :> 32)

\* the numbers of the function keys, F("1") to F("12")
FKeys == <<"1", "2", "3", "4", "5", "6", "7", "8", "9", "10", "11", "12">>

\* the order of the variants of KeyCode
KeyCodeVariants == <<"Char", "Backspace", "Enter", "Left", "Right", "Up", "Down", "Home",
                     "End", "PageUp", "PageDown", "Tab", "Delete", "Escape", "F">>

\* the order of the variants of EditorEvent
EventVariants == <<"Shutdown", "Redraw", "Error", "Info">>

\* u32::to_be_bytes
to_be_bytes(n) ==
    <<(n \div 16777216) % 256, (n \div 65536) % 256, (n \div 256) % 256, n % 256>>

\* u32::from_be_bytes
from_be_bytes(bs) == bs[1] * 16777216 + bs[2] * 65536 + bs[3] * 256 + bs[4]

\* an unsigned integer: one byte below 251, else a marker and 2 or 4 bytes,
\* low byte first
encode_varint(n) ==
    IF n < 251 THEN <<n>>
    ELSE IF n < 65536 THEN <<251, n % 256, n \div 256>>
    ELSE <<252, n % 256, (n \div 256) % 256, (n \div 65536) % 256, (n \div 16777216) % 256>>

encode_bool(b) == IF b THEN <<1>> ELSE <<0>>

RECURSIVE encode_chars(_)
encode_chars(str) ==
    IF str = <<>> THEN <<>> ELSE <<Utf8[Head(str)]>> \o encode_chars(Tail(str))

\* a String: its length in bytes, then its bytes
encode_string(str) == encode_varint(Len(str)) \o encode_chars(str)

\* an Option<String>
encode_option(o) == IF o = <<>> THEN <<0>> ELSE <<1>> \o encode_string(o[1])

encode_position(pos) == encode_varint(pos.line) \o encode_varint(pos.column)

encode_event(ev) ==
    encode_varint(IndexOf(EventVariants, ev.ev) - 1)
    \o (IF ev.ev \in {"Error", "Info"} THEN encode_string(ev.msg) ELSE <<>>)

RECURSIVE encode_events(_)
encode_events(evs) ==
    IF evs = <<>> THEN <<>> ELSE encode_event(Head(evs)) \o encode_events(Tail(evs))

RECURSIVE encode_strings(_)
encode_strings(strs) ==
    IF strs = <<>> THEN <<>> ELSE encode_string(Head(strs)) \o encode_strings(Tail(strs))

encode_render_data(data) ==
    encode_varint(Len(data.lines)) \o encode_strings(data.lines)
    \o encode_position(data.cursor)
    \o encode_varint(data.viewport_start)
    \o encode_varint(data.viewport_height)

encode_info(info) ==
    encode_position(info.cursor)
    \o encode_option(info.filepath)
    \o encode_option(info.name)
    \o encode_bool(info.modified)
    \o encode_varint(info.line_count)
    \o encode_varint(info.char_count)

encode_key(key) ==
    encode_varint(IndexOf(KeyCodeVariants, key.code) - 1)
    \o (CASE key.code = "Char" -> <<Utf8[key.ch]>>
          [] key.code = "F" -> <<IndexOf(FKeys, key.ch)>>
          [] OTHER -> <<>>)
    \o encode_bool(key.ctrl) \o encode_bool(key.alt)
    \o encode_bool(key.shift) \o encode_bool(key.meta)

\* bincode::encode_to_vec of a Message
encode_to_vec(msg) ==
    IF msg.type = "KeyPress" THEN encode_varint(0) \o encode_key(msg.key)
    ELSE encode_varint(1)
         \o encode_varint(Len(msg.events)) \o encode_events(msg.events)
         \o encode_render_data(msg.render_data)
         \o encode_info(msg.info)

\* Message::encode with a length that counts the prefix too
encode_counts_prefix(msg) ==
    LET encoded == encode_to_vec(msg)
        len == Len(encoded) + 4
    IN  to_be_bytes(len) \o encoded

\* Message::encode. `encoded.len() as u32` keeps the length as it is: a payload
\* of 2^32 bytes is beyond any message of the specification.
encode(msg) ==
    LET encoded == encode_to_vec(msg)
        len == Len(encoded)
    IN  to_be_bytes(len) \o encoded

\* the result of a decoder: the value and the bytes after it, or a failure
Decoded(val, rest) == [ok |-> TRUE, val |-> val, rest |-> rest]
Undecodable == [ok |-> FALSE, val |-> <<>>, rest |-> <<>>]

Drop(bs, n) == SubSeq(bs, n + 1, Len(bs))

\* the decoder K applied to what the decoder before it returned, r, unless
\* that one failed
Then(r, K(_)) == CHOOSE res \in {IF ~x.ok THEN Undecodable ELSE K(x) : x \in {r}} : TRUE

decode_varint(bs) ==
    IF bs = <<>> THEN Undecodable
    ELSE IF bs[1] < 251 THEN Decoded(bs[1], Tail(bs))
    ELSE IF bs[1] = 251 THEN
        IF Len(bs) < 3 THEN Undecodable ELSE Decoded(bs[2] + bs[3] * 256, Drop(bs, 3))
    ELSE IF bs[1] = 252 THEN
        IF Len(bs) < 5 THEN Undecodable
        ELSE Decoded(bs[2] + bs[3] * 256 + bs[4] * 65536 + bs[5] * 16777216, Drop(bs, 5))
    ELSE Undecodable

decode_bool(bs) ==
    IF bs = <<>> \/ bs[1] > 1 THEN Undecodable ELSE Decoded(bs[1] = 1, Tail(bs))

decode_char(bs) ==
    IF bs = <<>> \/ ~(\E ch \in DOMAIN Utf8 : Utf8[ch] = bs[1]) THEN Undecodable
    ELSE Decoded(CHOOSE ch \in DOMAIN Utf8 : Utf8[ch] = bs[1], Tail(bs))

RECURSIVE decode_chars(_, _)
decode_chars(bs, n) ==
    IF n = 0 THEN Decoded(<<>>, bs)
    ELSE Then(decode_char(bs), LAMBDA ch :
         Then(decode_chars(ch.rest, n - 1), LAMBDA after :
         Decoded(<<ch.val>> \o after.val, after.rest)))

decode_string(bs) ==
    Then(decode_varint(bs), LAMBDA len :
    IF len.val > Len(len.rest) THEN Undecodable ELSE decode_chars(len.rest, len.val))

decode_option(bs) ==
    IF bs = <<>> \/ bs[1] > 1 THEN Undecodable
    ELSE IF bs[1] = 0 THEN Decoded(<<>>, Tail(bs))
    ELSE Then(decode_string(Tail(bs)), LAMBDA str : Decoded(<<str.val>>, str.rest))

decode_position(bs) ==
    Then(decode_varint(bs), LAMBDA l :
    Then(decode_varint(l.rest), LAMBDA column :
    Decoded(Position(l.val, column.val), column.rest)))

decode_event(bs) ==
    Then(decode_varint(bs), LAMBDA variant :
    IF variant.val >= Len(EventVariants) THEN Undecodable
    ELSE IF EventVariants[variant.val + 1] \in {"Error", "Info"}
    THEN Then(decode_string(variant.rest), LAMBDA str :
         Decoded([ev |-> EventVariants[variant.val + 1], msg |-> str.val], str.rest))
    ELSE Decoded([ev |-> EventVariants[variant.val + 1], msg |-> <<>>], variant.rest))

RECURSIVE decode_events(_, _)
decode_events(bs, n) ==
    IF n = 0 THEN Decoded(<<>>, bs)
    ELSE Then(decode_event(bs), LAMBDA ev :
         Then(decode_events(ev.rest, n - 1), LAMBDA after :
         Decoded(<<ev.val>> \o after.val, after.rest)))

RECURSIVE decode_strings(_, _)
decode_strings(bs, n) ==
    IF n = 0 THEN Decoded(<<>>, bs)
    ELSE Then(decode_string(bs), LAMBDA str :
         Then(decode_strings(str.rest, n - 1), LAMBDA after :
         Decoded(<<str.val>> \o after.val, after.rest)))

decode_render_data(bs) ==
    Then(decode_varint(bs), LAMBDA n :
    Then(decode_strings(n.rest, n.val), LAMBDA lines :
    Then(decode_position(lines.rest), LAMBDA cursor :
    Then(decode_varint(cursor.rest), LAMBDA viewport_start :
    Then(decode_varint(viewport_start.rest), LAMBDA viewport_height :
    Decoded([lines |-> lines.val, cursor |-> cursor.val,
             viewport_start |-> viewport_start.val,
             viewport_height |-> viewport_height.val], viewport_height.rest))))))

decode_info(bs) ==
    Then(decode_position(bs), LAMBDA cursor :
    Then(decode_option(cursor.rest), LAMBDA filepath :
    Then(decode_option(filepath.rest), LAMBDA name :
    Then(decode_bool(name.rest), LAMBDA modified :
    Then(decode_varint(modified.rest), LAMBDA line_count :
    Then(decode_varint(line_count.rest), LAMBDA char_count :
    Decoded([cursor |-> cursor.val, filepath |-> filepath.val, name |-> name.val,
             modified |-> modified.val, line_count |-> line_count.val,
             char_count |-> char_count.val], char_count.rest)))))))

decode_key_code(bs) ==
    Then(decode_varint(bs), LAMBDA variant :
    IF variant.val >= Len(KeyCodeVariants) THEN Undecodable
    ELSE IF KeyCodeVariants[variant.val + 1] = "Char"
    THEN Then(decode_char(variant.rest), LAMBDA ch : Decoded(<<"Char", ch.val>>, ch.rest))
    ELSE IF KeyCodeVariants[variant.val + 1] = "F"
    THEN IF variant.rest = <<>> \/ variant.rest[1] \notin 1..Len(FKeys) THEN Undecodable
         ELSE Decoded(<<"F", FKeys[variant.rest[1]]>>, Tail(variant.rest))
    ELSE Decoded(<<KeyCodeVariants[variant.val + 1], "">>, variant.rest))

decode_key(bs) ==
    Then(decode_key_code(bs), LAMBDA code :
    Then(decode_bool(code.rest), LAMBDA ctrl :
    Then(decode_bool(ctrl.rest), LAMBDA alt :
    Then(decode_bool(alt.rest), LAMBDA shift :
    Then(decode_bool(shift.rest), LAMBDA meta :
    Decoded(Key(code.val[1], code.val[2], ctrl.val, alt.val, shift.val, meta.val),
            meta.rest))))))

\* bincode::decode_from_slice of a Message
decode_from_slice(bs) ==
    Then(decode_varint(bs), LAMBDA variant :
    IF variant.val = 0
    THEN Then(decode_key(variant.rest), LAMBDA key : Decoded(KeyPress(key.val), key.rest))
    ELSE IF variant.val = 1
    THEN Then(decode_varint(variant.rest), LAMBDA n :
         Then(decode_events(n.rest, n.val), LAMBDA evs :
         Then(decode_render_data(evs.rest), LAMBDA render_data :
         Then(decode_info(render_data.rest), LAMBDA info :
         Decoded(StateUpdate(evs.val, render_data.val, info.val), info.rest)))))
    ELSE Undecodable)

\* Message::decode: the message of a payload; bytes after it are not looked at
decode(bytes) ==
    LET r == decode_from_slice(bytes) IN
    IF r.ok THEN [ok |-> TRUE, message |-> r.val] ELSE [ok |-> FALSE, message |-> Bare("None")]

(***************************************************************************)
(* Specification of the wire format: a message is encoded, its frame is    *)
(* split at the length prefix and the payload decoded; call holds the      *)
(* message, the frame and what came out                                    *)
(***************************************************************************)
WireKeys ==
    {Key("Char", ch, ctrl, FALSE, shift, FALSE) :
        ch \in {"a", "c"}, ctrl \in BOOLEAN, shift \in BOOLEAN}
    \cup {Key(code, "", FALSE, alt, FALSE, meta) :
        code \in {"Backspace", "Left", "Tab", "Escape"}, alt \in BOOLEAN, meta \in BOOLEAN}
    \cup {Key("F", n, FALSE, FALSE, FALSE, FALSE) : n \in {"1", "12"}}

WireEvents ==
    {<<>>, <<Redraw>>, <<Shutdown>>, <<Error(<<"a", " ", "a">>)>>,
     <<Info(<<>>), Redraw>>}

WireLines == {<<>>, <<<<"a">>>>, <<<<>>, <<"a", "\n">>, <<"c">>>>}

\* numbers on both sides of the steps of the variable-length integers
WireCounts == {0, 250, 251, 65535, 65536}

WireMessages ==
    {KeyPress(key) : key \in WireKeys}
    \cup {StateUpdate(evs,
                      [lines |-> lines, cursor |-> Position(l, 1), viewport_start |-> l,
                       viewport_height |-> ViewportHeight],
                      [cursor |-> Position(l, 1), filepath |-> filepath, name |-> <<>>,
                       modified |-> modified, line_count |-> 1, char_count |-> n]) :
            evs \in WireEvents, lines \in WireLines, l \in {0, 251},
            filepath \in {<<>>, <<<<"a">>>>}, modified \in BOOLEAN, n \in WireCounts}

InitWire ==
    /\ editor = EditorNew
    /\ disk = [path \in Paths |-> <<>>]
    /\ crashed = FALSE
    /\ ServerIdle
    /\ \E m \in WireMessages :
         call = [stage |-> "message", message |-> m, frame |-> <<>>,
                 decoded |-> [ok |-> FALSE, message |-> Bare("None")]]

\* the sender encodes the message
EncodeMessage ==
    /\ call.stage = "message"
    /\ call' = [call EXCEPT !.stage = "frame", !.frame = encode(call.message)]
    /\ UNCHANGED <<edVars, srvVars>>

\* the receiver reads the four bytes of the length, then as many bytes as they
\* say, and decodes those
DecodePayload ==
    /\ call.stage = "frame"
    /\ LET len == from_be_bytes(SubSeq(call.frame, 1, PrefixLen))
           payload == SubSeq(call.frame, PrefixLen + 1, PrefixLen + len)
       IN  call' = [call EXCEPT !.stage = "decoded", !.decoded = decode(payload)]
    /\ UNCHANGED <<edVars, srvVars>>

NextWire == EncodeMessage \/ DecodePayload

SpecWire == InitWire /\ [][NextWire]_vars

(***************************************************************************)
(* Key specifications (src/input.rs): FromStr for EditorKey and for        *)
(* KeySequence, parse_key_code. A string is the sequence of its characters.*)
(***************************************************************************)
\* the bytes of a character in UTF-8 (str::len counts bytes); "U+00E9" stands
\* for the one character e with acute accent
len_utf8(ch) == IF ch = "U+00E9" THEN 2 ELSE 1

RECURSIVE str_len(_)
str_len(str) == IF str = <<>> THEN 0 ELSE len_utf8(Head(str)) + str_len(Tail(str))

Digits == <<"0", "1", "2", "3", "4", "5", "6", "7", "8", "9">>
is_ascii_digit(ch) == \E i \in 1..Len(Digits) : Digits[i] = ch

Whitespace == {" ", "\t", "\n"}

\* str::split: the parts between the separators, one more than separators
RECURSIVE split(_, _)
split(str, sep) ==
    IF \A i \in 1..Len(str) : str[i] # sep THEN <<str>>
    ELSE LET i == CHOOSE k \in 1..Len(str) :
                      str[k] = sep /\ \A j \in 1..(k - 1) : str[j] # sep
         IN  <<SubSeq(str, 1, i - 1)>> \o split(SubSeq(str, i + 1, Len(str)), sep)

\* str::trim
RECURSIVE trim(_)
trim(str) ==
    IF str = <<>> THEN str
    ELSE IF Head(str) \in Whitespace THEN trim(Tail(str))
    ELSE IF str[Len(str)] \in Whitespace THEN trim(SubSeq(str, 1, Len(str) - 1))
    ELSE str

\* str::split_whitespace: the non-empty runs between whitespace
RECURSIVE split_whitespace(_)
split_whitespace(str) ==
    IF str = <<>> THEN <<>>
    ELSE IF Head(str) \in Whitespace THEN split_whitespace(Tail(str))
    ELSE IF \A i \in 1..Len(str) : str[i] \notin Whitespace THEN <<str>>
    ELSE LET i == CHOOSE k \in 1..Len(str) :
                      str[k] \in Whitespace /\ \A j \in 1..(k - 1) : str[j] \notin Whitespace
         IN  <<SubSeq(str, 1, i - 1)>> \o split_whitespace(SubSeq(str, i + 1, Len(str)))

\* the value of a string of digits
RECURSIVE parse_digits(_)
parse_digits(ds) ==
    IF ds = <<>> THEN 0
    ELSE parse_digits(SubSeq(ds, 1, Len(ds) - 1)) * 10 + IndexOf(Digits, ds[Len(ds)]) - 1

\* ParseKeyError, and the results of the parsers
ParseKeyError(kind, arg) == [kind |-> kind, arg |-> arg]
NoError == ParseKeyError("None", <<>>)
Parsed(val) == [ok |-> TRUE, val |-> val, err |-> NoError]
Rejected(val, err) == [ok |-> FALSE, val |-> val, err |-> err]

\* the names of the special keys in parse_key_code, with their KeyCode
NamedKeys ==
    {<<<<"E", "n", "t", "e", "r">>, "Enter">>,
     <<<<"B", "a", "c", "k", "s", "p", "a", "c", "e">>, "Backspace">>,
     <<<<"D", "e", "l", "e", "t", "e">>, "Delete">>,
     <<<<"E", "s", "c", "a", "p", "e">>, "Escape">>,
     <<<<"E", "s", "c">>, "Escape">>,
     <<<<"T", "a", "b">>, "Tab">>,
     <<<<"H", "o", "m", "e">>, "Home">>,
     <<<<"E", "n", "d">>, "End">>,
     <<<<"P", "a", "g", "e", "U", "p">>, "PageUp">>,
     <<<<"P", "a", "g", "e", "D", "o", "w", "n">>, "PageDown">>,
     <<<<"L", "e", "f", "t">>, "Left">>,
     <<<<"R", "i", "g", "h", "t">>, "Right">>,
     <<<<"U", "p">>, "Up">>,
     <<<<"D", "o", "w", "n">>, "Down">>}

\* the modifier names in from_str, with the flag they set
ModifierNames ==
    {<<<<"C", "t", "r", "l">>, "ctrl">>,
     <<<<"C">>, "ctrl">>,
     <<<<"A", "l", "t">>, "alt">>,
     <<<<"M">>, "alt">>,
     <<<<"S", "h", "i", "f", "t">>, "shift">>,
     <<<<"S">>, "shift">>,
     <<<<"S", "u", "p", "e", "r">>, "meta">>,
     <<<<"s">>, "meta">>}

\* parse_key_code: <<code, ch>> of a key token
parse_key_code(str) ==
    IF \E nk \in NamedKeys : nk[1] = str
    THEN Parsed(<<(CHOOSE nk \in NamedKeys : nk[1] = str)[2], "">>)
    ELSE IF str # <<>> /\ Head(str) = "F" /\ str_len(str) > 1
            /\ \A i \in 2..Len(str) : is_ascii_digit(str[i])
    THEN LET num == parse_digits(Tail(str)) IN
         IF num > 255 THEN Rejected(<<>>, ParseKeyError("InvalidFunctionKey", str))
         ELSE IF num >= 1 /\ num <= 12 THEN Parsed(<<"F", FKeys[num]>>)
         ELSE Rejected(<<>>, ParseKeyError("InvalidFunctionKey", str))
    ELSE IF str_len(str) = 1 THEN Parsed(<<"Char", str[1]>>)
    ELSE Rejected(<<>>, ParseKeyError("UnknownKey", str))

\* the flags after the modifier parts, or the first part that is no modifier
RECURSIVE parse_modifiers(_, _)
parse_modifiers(parts, modifiers) ==
    IF parts = <<>> THEN Parsed(modifiers)
    ELSE IF \E mn \in ModifierNames : mn[1] = Head(parts)
    THEN LET flag == (CHOOSE mn \in ModifierNames : mn[1] = Head(parts))[2]
         IN  parse_modifiers(Tail(parts), [modifiers EXCEPT ![flag] = TRUE])
    ELSE Rejected(modifiers, ParseKeyError("UnknownModifier", Head(parts)))

\* <EditorKey as FromStr>::from_str
EditorKey_from_str(str) ==
    IF str = <<>> THEN Rejected(PlainKey("None"), ParseKeyError("Empty", <<>>))
    ELSE LET parts == split(str, "-")
             key_part == parts[Len(parts)]
             modifiers == parse_modifiers(SubSeq(parts, 1, Len(parts) - 1),
                                          [ctrl |-> FALSE, alt |-> FALSE, shift |-> FALSE,
                                           meta |-> FALSE])
         IN  IF ~modifiers.ok THEN Rejected(PlainKey("None"), modifiers.err)
             ELSE LET code == parse_key_code(key_part) IN
                  IF ~code.ok THEN Rejected(PlainKey("None"), code.err)
                  ELSE Parsed(Key(code.val[1], code.val[2], modifiers.val.ctrl,
                                  modifiers.val.alt, modifiers.val.shift, modifiers.val.meta))

\* collect::<Result<Vec<_>, _>>: the keys, or the first error
RECURSIVE collect(_)
collect(results) ==
    IF results = <<>> THEN Parsed(<<>>)
    ELSE IF ~Head(results).ok THEN Rejected(<<>>, Head(results).err)
    ELSE LET after == collect(Tail(results)) IN
         IF ~after.ok THEN after ELSE Parsed(<<Head(results).val>> \o after.val)

\* collect that goes on after an error and keeps the last one
RECURSIVE collect_last_error(_)
collect_last_error(results) ==
    IF results = <<>> THEN Parsed(<<>>)
    ELSE LET after == collect_last_error(Tail(results)) IN
         IF ~after.ok THEN after
         ELSE IF ~Head(results).ok THEN Rejected(<<>>, Head(results).err)
         ELSE Parsed(<<Head(results).val>> \o after.val)

\* from_str of a key sequence that keeps the last error
KeySequence_from_str_last_error(str) ==
    LET trimmed == trim(str) IN
    IF trimmed = <<>> THEN Rejected(<<>>, ParseKeyError("Empty", <<>>))
    ELSE LET tokens == split_whitespace(trimmed)
         IN  collect_last_error([i \in 1..Len(tokens) |-> EditorKey_from_str(tokens[i])])

\* <KeySequence as FromStr>::from_str
KeySequence_from_str(str) ==
    LET trimmed == trim(str) IN
    IF trimmed = <<>> THEN Rejected(<<>>, ParseKeyError("Empty", <<>>))
    ELSE LET tokens == split_whitespace(trimmed)
         IN  collect([i \in 1..Len(tokens) |-> EditorKey_from_str(tokens[i])])

(***************************************************************************)
(* Specification of the key parsers: a string is put together from parts   *)
(* and parsed, as one key or as a key sequence; call holds the string and  *)
(* the result                                                              *)
(***************************************************************************)
\* the parts between the - of the key specifications: modifier names, key
\* names, characters, and strings that are neither
PartTokens ==
    {mn[1] : mn \in ModifierNames} \cup {<<>>, <<"x">>, <<"U+00E9">>, <<"F">>, <<"F", "o", "o">>, <<"F", "a">>, <<"E", "n", "t", "e", "r">>, <<"E", "s", "c">>, <<"F", "1">>, <<"F", "1", "2">>, <<"F", "1", "3">>, <<"F", "0", "1">>}

\* the tokens of the key sequences; the empty one makes two separators meet
SequenceTokens == {<<>>, <<"C", "-", "x">>, <<"M", "-", "s">>, <<"E", "n", "t", "e", "r">>, <<"F", "o", "o">>, <<"F", "1", "3">>, <<"Q", "-", "x">>}

RECURSIVE join(_, _)
join(parts, sep) ==
    IF Len(parts) = 1 THEN parts[1] ELSE parts[1] \o <<sep>> \o join(Tail(parts), sep)

Tuples(S, n) == UNION {[1..k -> S] : k \in 1..n}

InitParse ==
    /\ editor = EditorNew
    /\ disk = [path \in Paths |-> <<>>]
    /\ crashed = FALSE
    /\ ServerIdle
    /\ \/ \E parts \in Tuples(PartTokens, MaxParts) :
            call = [stage |-> "key spec", str |-> join(parts, "-"), tokens |-> <<>>,
                    result |-> Parsed(<<>>)]
       \/ \E tokens \in Tuples(SequenceTokens, MaxTokens) : \E sep \in {" ", "\t"} :
            call = [stage |-> "key sequence", str |-> join(tokens, sep),
                    tokens |-> SelectSeq(tokens, LAMBDA t : t # <<>>),
                    result |-> Parsed(<<>>)]

ParseKey ==
    /\ call.stage = "key spec"
    /\ call' = [call EXCEPT !.stage = "key", !.result = EditorKey_from_str(call.str)]
    /\ UNCHANGED <<edVars, srvVars>>

ParseSequence ==
    /\ call.stage = "key sequence"
    /\ call' = [call EXCEPT !.stage = "keys", !.result = KeySequence_from_str(call.str)]
    /\ UNCHANGED <<edVars, srvVars>>

NextParse == ParseKey \/ ParseSequence

SpecParse == InitParse /\ [][NextParse]_vars

(***************************************************************************)
(* Specification of position_to_cursor on the positions of existing lines, *)
(* columns beyond the line included; call holds the buffer, the position   *)
(* asked for and the offset returned                                       *)
(***************************************************************************)
\* "Hi\nLonger line"
ClampExampleText ==
    <<"H", "i", "\n", "L", "o", "n", "g", "e", "r", " ", "l", "i", "n", "e">>

\* the columns asked for: up to MaxColumn, and one far beyond any line
Columns == 0..MaxColumn \cup {100}

InitPosition ==
    /\ editor = EditorNew
    /\ disk = [path \in Paths |-> <<>>]
    /\ crashed = FALSE
    /\ ServerIdle
    /\ \E t \in Texts(MaxStart) \cup {ClampExampleText} :
         call = [buffer |-> [BufferNew EXCEPT !.rope = t], cursor |-> 0,
                 start |-> [rope |-> t, cursor |-> 0], log |-> <<>>,
                 pos |-> <<>>, of |-> 0]

\* position_to_cursor of any position whose line the text has
CallPositionToCursorOf ==
    /\ call.log = <<>>
    /\ \E l \in 0..(len_lines(call.buffer.rope) - 1) : \E column \in Columns :
         /\ call' = [call EXCEPT !.pos = <<Position(l, column)>>,
                                 !.cursor = position_to_cursor(call.buffer, Position(l, column)),
                                 !.log = Append(@, Called("position_to_cursor", 0))]
         /\ UNCHANGED <<edVars, srvVars>>

NextPosition == CallPositionToCursorOf

SpecPosition == InitPosition /\ [][NextPosition]_vars

(***************************************************************************)
(* Properties                                                              *)
(***************************************************************************)
ViewIds == DOMAIN editor.views
BufferIds == DOMAIN editor.buffers

\* C1: the view map is never empty, current_view is one of its keys, every
\* view's buffer_id is a key of the buffer map, and every buffer is referenced
\* by at least one view.
C1_ViewsAndBuffers ==
    /\ ViewIds # {}
    /\ editor.current_view \in ViewIds
    /\ \A v \in ViewIds : editor.views[v].buffer_id \in BufferIds
    /\ \A b \in BufferIds : \E v \in ViewIds : editor.views[v].buffer_id = b

\* a view was deleted with its buffer and another one created after it
C1_Witness ==
    /\ 0 \notin ViewIds
    /\ 0 \notin BufferIds
    /\ Cardinality(ViewIds) = 2
    /\ editor.next_view_id = 3

\* C2: every view's cursor lies in [0, length of the buffer it references].
C2_CursorInBuffer ==
    \A v \in ViewIds :
        /\ editor.views[v].buffer_id \in BufferIds
        /\ editor.views[v].cursor >= 0
        /\ editor.views[v].cursor <= Len(editor.buffers[editor.views[v].buffer_id].rope)

\* two views, the current one with its cursor at the end of an edited buffer,
\* the other one left with its cursor inside its own text
C2_Witness ==
    /\ Cardinality(ViewIds) = 2
    /\ LET cur == get_current_view(editor) IN
       /\ cur.cursor = Len(editor.buffers[cur.buffer_id].rope)
       /\ cur.cursor > 0
       /\ editor.buffers[cur.buffer_id].modified
    /\ \E v \in ViewIds \ {editor.current_view} :
           /\ editor.views[v].cursor > 0
           /\ editor.views[v].cursor <= Len(editor.buffers[editor.views[v].buffer_id].rope)

\* the handlers holding the write guard, and those holding a read guard
Writers == {c \in Conns : pc[c] \in {"process_key", "snapshot"}}
Readers == {c \in Conns : pc[c] = "snapshot_read"}

\* C3: at most one handler holds write access, none reads while one writes,
\* and the StateUpdate built for a key is the snapshot of the editor as that
\* key's command left it.
C3_ExclusiveKeyAndSnapshot ==
    /\ Cardinality(Writers) <= 1
    /\ Writers # {} => Readers = {}
    /\ \A c \in Conns :
         /\ pc[c] = "snapshot" => editor = afterKey[c]
         /\ (pc[c] = "send" /\ message[c].type = "KeyPress") =>
                /\ response[c].type = "StateUpdate"
                /\ response[c].events = protocol_events[c]
                /\ response[c].info.char_count =
                       Len(afterKey[c].buffers[get_current_view(afterKey[c]).buffer_id].rope)
                /\ response[c].render_data.cursor.column = get_current_view(afterKey[c]).cursor

\* one handler is about to send the StateUpdate of its key while the other
\* one has already applied a later key
C3_Witness ==
    /\ pc["A"] = "send"
    /\ message["A"].type = "KeyPress"
    /\ pc["B"] = "snapshot"
    /\ response["A"].info.char_count = 1
    /\ Len(get_current_buffer(editor).rope) = 2

\* the frames of c (by their place in sent[c]) whose key was applied, in the
\* order of application
RECURSIVE AppliedOf(_, _)
AppliedOf(c, log) ==
    IF log = <<>> THEN <<>>
    ELSE IF Head(log)[1] = c THEN <<Head(log)[2]>> \o AppliedOf(c, Tail(log))
    ELSE AppliedOf(c, Tail(log))

\* the places of the KeyPress frames among the first n frames c sent, ascending
RECURSIVE KeyFrames(_, _)
KeyFrames(c, n) ==
    IF n = 0 THEN <<>>
    ELSE IF sent[c][n].type = "KeyPress" THEN Append(KeyFrames(c, n - 1), n)
    ELSE KeyFrames(c, n - 1)

\* the frames the handler of c is through with: those it has read, but for a
\* key still waiting for the lock or for process_key
Handled(c) == IF pc[c] \in {"lock_write", "process_key"} THEN rd[c] - 1 ELSE rd[c]

\* C4: on each connection the keys applied are the KeyPress frames the handler
\* has read, once each and in the order sent; a handler that ended at a clean
\* end of stream has applied every KeyPress frame its client sent.
C4_AppliedOnceInOrder ==
    \A c \in Conns :
        /\ AppliedOf(c, applied) = KeyFrames(c, Handled(c))
        /\ pc[c] = "done" => AppliedOf(c, applied) = KeyFrames(c, Len(sent[c]))

\* both connections have had keys applied, interleaved, one of them two keys
C4_Witness ==
    /\ Len(applied) = 3
    /\ applied[1][1] = "A"
    /\ applied[2][1] = "B"
    /\ applied[3][1] = "A"
    /\ pc["A"] = "done"

\* the frames among the first n of c that the match answers
RECURSIVE Answered(_, _)
Answered(c, n) ==
    IF n = 0 THEN 0
    ELSE Answered(c, n - 1)
         + (IF sent[c][n].type \in {"KeyPress", "ClientStart", "ServerStatusCheck"} THEN 1 ELSE 0)

\* C5 as stated: when a handler is about to read a frame it has sent one
\* response for every frame it has read and decoded, whatever the variant.
C5_OneResponsePerFrame ==
    \A c \in Conns : pc[c] \in {"read_len", "read_body"} => Len(out[c]) = rd[c]

\* C5 amended: when a handler is about to read a frame it has sent exactly one
\* response for every KeyPress, ClientStart and ServerStatusCheck frame it has
\* read (a StateUpdate, a StateUpdate, a ServerStatusOk) and none for a frame
\* of another variant.
C5_OneResponsePerRequest ==
    \A c \in Conns :
        /\ pc[c] \in {"read_len", "read_body"} => Len(out[c]) = Answered(c, rd[c])
        /\ Len(out[c]) <= Answered(c, rd[c])
        /\ \A i \in 1..Len(out[c]) : out[c][i].type \in {"StateUpdate", "ServerStatusOk"}

\* a handler has read a ServerStatusOk and a ServerStatusCheck and answered
\* the second one only
C5_Witness ==
    \E c \in Conns :
        /\ pc[c] = "read_len"
        /\ rd[c] = 2
        /\ sent[c][1].type = "ServerStatusOk"
        /\ sent[c][2].type = "ServerStatusCheck"
        /\ out[c] = <<ServerStatusOk>>

\* C6 as stated: once A's burst is written and B's key arrives after it, no
\* key of B is applied between two edits of A's burst.
C6_BurstNotInterleaved ==
    ~ \E i \in 1..Len(applied) : \E j \in (i + 1)..Len(applied) : \E k \in (j + 1)..Len(applied) :
          /\ applied[i] = <<"A", 1>>
          /\ applied[j][1] = "B"
          /\ applied[k] = <<"A", 2>>

\* C6 amended: A's edits are applied in A's order and each of them alone under
\* the lock (B's key is never applied while an edit of A is between its lock
\* acquisition and its snapshot); B's key may be applied between two edits of
\* the burst.
C6_BurstOrderedAndEachEditExclusive ==
    /\ \A i \in 1..Len(applied) : \A j \in (i + 1)..Len(applied) :
           (applied[i][1] = "A" /\ applied[j][1] = "A") => applied[i][2] < applied[j][2]
    /\ ~ ("A" \in Writers /\ "B" \in Writers)
    /\ \A c \in Conns : pc[c] = "snapshot" => (applied # <<>> /\ applied[Len(applied)][1] = c)

\* B's key, written after A's burst, is being applied between A's two edits
C6_Witness ==
    /\ applied = <<<<"A", 1>>, <<"B", 1>>>>
    /\ pc["B"] = "snapshot"
    /\ pc["A"] = "lock_write"
    /\ Len(sent["A"]) = BurstLen

\* the next read of c's length prefix meets the end of the stream at n bytes
EofAfter(c, n) == pc[c] = "read_len" /\ rd[c] = Len(sent[c]) /\ tail[c] = n

\* a step of c's handler, or of c's client, leaves the editor, the lock and
\* every other connection as they are
OnlyConnection(c) ==
    /\ editor' = editor
    /\ disk' = disk
    /\ lock' = lock
    /\ listener' = listener
    /\ \A d \in Conns \ {c} : pc'[d] = pc[d] /\ out'[d] = out[d] /\ rd'[d] = rd[d]

\* C7: at an end of stream with no byte of the next length prefix read, the
\* handler ends without an error, sends no further frame, and leaves the
\* editor and every other handler unchanged; an ended handler stays ended.
C7_CleanDisconnect ==
    [][\A c \in Conns :
          /\ (EofAfter(c, 0) /\ pc'[c] # pc[c]) =>
                 (pc'[c] = "done" /\ out'[c] = out[c] /\ OnlyConnection(c))
          /\ pc[c] = "done" => (pc'[c] = "done" /\ out'[c] = out[c])]_vars

\* a handler ended at a clean end of stream after serving a key, while the
\* other connection's key is still being served
C7_Witness ==
    /\ pc["A"] = "done"
    /\ tail["A"] = 0
    /\ Len(out["A"]) = 1
    /\ pc["B"] = "process_key"

\* C8 as stated: a handler ends without an error only at an end of stream with
\* zero bytes of the length prefix read; after 1, 2 or 3 bytes it ends with an
\* error.
C8_PartialPrefixIsError ==
    \A c \in Conns : pc[c] = "done" => tail[c] = 0

\* the next frame of c cannot be decoded: its body is cut short or its payload
\* is no message
BadFrame(c) ==
    /\ pc[c] = "read_body"
    /\ \/ rd[c] < Len(sent[c]) /\ sent[c][rd[c] + 1].type = "Garbage"
       \/ rd[c] = Len(sent[c]) /\ tail[c] = PrefixLen

\* C9: a frame with a truncated body or an undecodable payload ends that
\* connection's handler with an error and changes nothing else: the editor,
\* the lock and the other handlers are as before, a failed handler holds no
\* access and stays failed, and the accept loop goes on accepting.
C9_BadFrameIsolated ==
    /\ [][\A c \in Conns :
            /\ (BadFrame(c) /\ pc'[c] # pc[c]) => (pc'[c] = "failed" /\ OnlyConnection(c))
            /\ pc[c] = "failed" => pc'[c] = "failed"]_vars
    /\ [](/\ listener = "accepting"
          /\ \A c \in Conns : pc[c] = "failed" => (c \notin Writers /\ c \notin Readers)
          /\ \A c \in Conns : pc[c] = "connecting" => ENABLED Accept(c))

\* A's handler failed on an undecodable payload after one key; B was accepted
\* and has been answered since
C9_Witness ==
    /\ pc["A"] = "failed"
    /\ rd["A"] = 2
    /\ sent["A"][2].type = "Garbage"
    /\ Len(applied) = 2
    /\ applied[2][1] = "B"
    /\ Len(out["B"]) = 1

\* c's handler is handling a ClientStart or a ServerStatusCheck
Probing(c) ==
    \/ pc[c] \in {"lock_read", "snapshot_read"}
    \/ pc[c] = "send" /\ message[c].type \in {"ClientStart", "ServerStatusCheck"}
    \/ /\ pc[c] = "read_body"
       /\ rd[c] < Len(sent[c])
       /\ sent[c][rd[c] + 1].type \in {"ClientStart", "ServerStatusCheck"}

\* C10: no step of the handling of a ClientStart or a ServerStatusCheck
\* changes the editor; ClientStart is answered with a StateUpdate without
\* events that describes the current view's buffer as it is when the snapshot
\* is taken, ServerStatusCheck with ServerStatusOk.
C10_ProbesLeaveEditor ==
    /\ [][\A c \in Conns :
            /\ (Probing(c) /\ pc'[c] # pc[c]) => (editor' = editor /\ disk' = disk)
            /\ (pc[c] = "snapshot_read" /\ pc'[c] = "send") =>
                   /\ response'[c].type = "StateUpdate"
                   /\ response'[c].events = <<>>
                   /\ response'[c].info.char_count = Len(get_current_buffer(editor).rope)
                   /\ response'[c].info.modified = get_current_buffer(editor).modified
                   /\ response'[c].render_data.viewport_start = get_current_view(editor).scroll_line
                   /\ response'[c].render_data.viewport_height = ViewportHeight
                   /\ Len(response'[c].render_data.lines) = len_lines(get_current_buffer(editor).rope)]_vars
    /\ [](\A c \in Conns :
            (pc[c] = "send" /\ message[c].type = "ServerStatusCheck") =>
                response[c] = ServerStatusOk)

\* a connection that had a key applied is answering a ClientStart with the
\* text the other connection's key has grown since
C10_Witness ==
    \E c \in Conns :
        /\ pc[c] = "send"
        /\ message[c].type = "ClientStart"
        /\ protocol_events[c] # <<>>
        /\ response[c].info.char_count = 2

\* c's handler is about to send the answer to a ClientStart that directly
\* followed a frame of c answered with a StateUpdate: c sent no key in between
Reprobed(c) ==
    /\ pc[c] = "send"
    /\ message[c].type = "ClientStart"
    /\ rd[c] >= 2
    /\ sent[c][rd[c] - 1].type \in {"KeyPress", "ClientStart"}
    /\ Len(out[c]) >= 1
    /\ out[c][Len(out[c])].type = "StateUpdate"

\* C11 as stated: every client has its own view, so between two StateUpdates of
\* a connection that sent no key in between, the cursor position, the buffer
\* shown and the scroll offset are the same whatever the other connections'
\* keys did.
C11_OwnViewPerClient ==
    \A c \in Conns :
        Reprobed(c) =>
            LET last == out[c][Len(out[c])] IN
            /\ response[c].render_data.cursor = last.render_data.cursor
            /\ response[c].info.cursor = last.info.cursor
            /\ response[c].render_data.viewport_start = last.render_data.viewport_start
            /\ response[c].info.name = last.info.name
            /\ response[c].info.filepath = last.info.filepath

\* the last n calls of the sequence are the functions named by ops
LastCalls(ops) ==
    /\ Len(call.log) >= Len(ops)
    /\ \A i \in 1..Len(ops) : call.log[Len(call.log) - Len(ops) + i].op = ops[i]

\* C12 as stated: position_to_cursor of the position cursor_to_position gave
\* for an offset c of the buffer, 0 <= c <= length, is c again.
C12_PositionRoundTrip ==
    LastCalls(<<"cursor_to_position", "position_to_cursor">>) => call.cursor = call.of

\* the whole sequence of calls so far is the functions named by ops
Calls(ops) == Len(call.log) = Len(ops) /\ LastCalls(ops)

\* the sequence began with the example text inserted into a new buffer
ExampleInserted ==
    /\ call.start = [rope |-> <<>>, cursor |-> 0]
    /\ call.log # <<>>
    /\ call.log[1] = Called("insert_string", Len(ExampleText))

\* where the cursor is now, and where the sequence started
CallPos == cursor_to_position(call.buffer, call.cursor)
StartPos == cursor_to_position([rope |-> call.start.rope], call.start.cursor)

\* the sequence started at the end of a last line that has a line above it at
\* least as long as the starting column
StartedAtEndBelowLongerLine ==
    /\ call.start.cursor = Len(call.start.rope)
    /\ StartPos.line > 0
    /\ Len(StripBreak(line(call.start.rope, StartPos.line - 1))) >= StartPos.column

\* C13 as stated: the example text leaves the cursor at offset 20, position
\* (2,6); move_up gives (1,6) and move_down after it (2,6) again; and move_up
\* then move_down from the end of the last line, under a line at least as long
\* as the starting column, gives the starting offset again.
C13_UpDownReturns ==
    /\ (ExampleInserted /\ Calls(<<"insert_string">>)) =>
           (call.cursor = 20 /\ CallPos = Position(2, 6))
    /\ (ExampleInserted /\ Calls(<<"insert_string", "MoveUp">>)) => CallPos = Position(1, 6)
    /\ (ExampleInserted /\ Calls(<<"insert_string", "MoveUp", "MoveDown">>)) =>
           CallPos = Position(2, 6)
    /\ (StartedAtEndBelowLongerLine /\ Calls(<<"MoveUp", "MoveDown">>)) =>
           call.cursor = call.start.cursor

\* C13 amended: the example text leaves the cursor at offset 20, position
\* (2,6); move_up gives (1,6) and move_down after it (2,5); and move_up then
\* move_down from the end of the last line, under a line at least as long as
\* the starting column, gives the starting line one column before the starting
\* column, and the starting position only when the last line is empty.
C13_UpDownReturnsOneShort ==
    /\ (ExampleInserted /\ Calls(<<"insert_string">>)) =>
           (call.cursor = 20 /\ CallPos = Position(2, 6))
    /\ (ExampleInserted /\ Calls(<<"insert_string", "MoveUp">>)) => CallPos = Position(1, 6)
    /\ (ExampleInserted /\ Calls(<<"insert_string", "MoveUp", "MoveDown">>)) =>
           CallPos = Position(2, 5)
    /\ (StartedAtEndBelowLongerLine /\ Calls(<<"MoveUp">>)) =>
           CallPos = Position(StartPos.line - 1, StartPos.column)
    /\ (StartedAtEndBelowLongerLine /\ Calls(<<"MoveUp", "MoveDown">>)) =>
           CallPos = Position(StartPos.line, SatSub(StartPos.column, 1))

\* move_up and move_down were called after the example text was inserted, and
\* the cursor is one column short of the end of "Line 3"
C13_Witness ==
    /\ ExampleInserted
    /\ Calls(<<"insert_string", "MoveUp", "MoveDown">>)
    /\ call.buffer.rope = ExampleText
    /\ call.cursor = 19

\* the characters the first m calls of the sequence inserted
RECURSIVE Inserted(_)
Inserted(m) == IF m = 0 THEN 0 ELSE Inserted(m - 1) + call.log[m].n

\* the sequence is m >= 1 inserts followed by one backspace for each character
\* they inserted
InsertsUndone(m) ==
    /\ m >= 1
    /\ \A i \in 1..m : call.log[i].op \in {"insert_char", "insert_string"}
    /\ \A i \in (m + 1)..Len(call.log) : call.log[i].op = "backspace"
    /\ Len(call.log) - m = Inserted(m)

\* C14: after a sequence of insert_char and insert_string calls at the running
\* cursor, one backspace per inserted character, each at the cursor the call
\* before returned, leaves the text and the cursor the sequence started from.
C14_BackspaceUndoesInserts ==
    \A m \in 1..Len(call.log) :
        InsertsUndone(m) =>
            /\ call.buffer.rope = call.start.rope
            /\ call.cursor = call.start.cursor

\* two characters inserted in front of a text by insert_char and insert_char,
\* undone by two backspaces
C14_Witness ==
    /\ Len(call.log) = 4
    /\ InsertsUndone(2)
    /\ call.start.cursor = 0
    /\ Len(call.start.rope) = 1
    /\ call.buffer.modified

OneError == Len(call.events) = 1 /\ call.events[1].ev = "Error"

\* the last command left the editor and the files as it found them and did
\* not end the program
NothingChanged == editor = call.editor /\ disk = call.disk /\ ~crashed

\* C16: a file command that fails returns an Error event and leaves the editor
\* as it was: Save on a buffer without a path (the error names the missing
\* path), Save and SaveAs whose write fails, OpenFile whose read fails; no
\* command that returns an Error event changes the editor or ends the program.
C16_FailedFileCommand ==
    /\ (call.command.op = "Save" /\ get_current_buffer(call.editor).filepath = <<>>) =>
           /\ call.events = <<Error(<<"Save failed", "No buffer path set">>)>>
           /\ NothingChanged
    /\ (call.command.op = "OpenFile"
            /\ (call.io = "fail" \/ call.disk[call.command.path] = <<>>)) =>
           /\ OneError
           /\ NothingChanged
    /\ (call.command.op \in {"Save", "SaveAs"} /\ call.io = "fail") =>
           /\ OneError
           /\ NothingChanged
    /\ (\E i \in 1..Len(call.events) : call.events[i].ev = "Error") =>
           /\ OneError
           /\ NothingChanged

\* OpenFile failed in an editor of two views whose current buffer is modified
\* and has no path
C16_Witness ==
    /\ call.command.op = "OpenFile"
    /\ call.io = "fail"
    /\ OneError
    /\ Cardinality(ViewIds) = 2
    /\ get_current_buffer(editor).modified
    /\ get_current_buffer(editor).filepath = <<>>

\* the buffer the last command acted on, before and after it (DeleteBuffer
\* aside, a command leaves the current view's buffer in the editor)
BufferBefore == get_current_buffer(call.editor)
BufferAfter == editor.buffers[get_current_view(call.editor).buffer_id]

\* C17 as stated: after SaveAs(path) the buffer's path is the given path and
\* its modified flag is clear, whatever the outcome of the write.
C17_SaveAsAlwaysSetsPath ==
    call.command.op = "SaveAs" =>
        /\ BufferAfter.filepath = <<call.command.path>>
        /\ ~BufferAfter.modified

\* C17 amended: after SaveAs(path) whose write succeeded the buffer's path is
\* the given path, its modified flag is clear and the file holds its text;
\* after SaveAs(path) whose write failed the buffer has the path and the flag
\* it had before, and the command returned an Error event.
C17_SaveAsSetsPathOnSuccess ==
    call.command.op = "SaveAs" =>
        IF call.io = "ok"
        THEN /\ BufferAfter.filepath = <<call.command.path>>
             /\ ~BufferAfter.modified
             /\ BufferAfter.rope = BufferBefore.rope
             /\ disk[call.command.path] = <<BufferAfter.rope>>
             /\ call.events = <<Info(<<"Saved as", call.command.path>>)>>
        ELSE /\ BufferAfter = BufferBefore
             /\ disk = call.disk
             /\ OneError

\* SaveAs failed on a modified buffer that has no path: it is still modified
\* and still has none
C17_Witness ==
    /\ call.command.op = "SaveAs"
    /\ call.io = "fail"
    /\ BufferAfter.modified
    /\ BufferAfter.filepath = <<>>
    /\ Len(BufferAfter.rope) > 0

\* C18 as stated: DeleteRange, Undo and Redo return a result that tells the
\* caller the command is not supported, leave the editor as it was and do not
\* panic.
C18_UnsupportedIsReported ==
    call.command.op \in {"DeleteRange", "Undo", "Redo"} =>
        /\ ~crashed
        /\ editor = call.editor
        /\ call.events # <<>>

\* C19: DeleteBuffer in an editor of exactly one view changes nothing (views,
\* buffers, view order, current view, text and cursor are as before) and
\* returns no event.
C19_DeleteOnlyViewIsNoOp ==
    (call.command.op = "DeleteBuffer" /\ Cardinality(DOMAIN call.editor.views) = 1) =>
        /\ editor = call.editor
        /\ call.events = <<>>
        /\ ~crashed

\* DeleteBuffer was refused on the one view left after others were deleted,
\* a view of a buffer with text and the cursor behind it
C19_Witness ==
    /\ call.command.op = "DeleteBuffer"
    /\ Cardinality(DOMAIN call.editor.views) = 1
    /\ editor.next_view_id >= 3
    /\ get_current_buffer(editor).rope = <<"a">>
    /\ get_current_view(editor).cursor = 1

\* C20: DeleteBuffer in an editor of two or more views removes the current
\* view, and no other, from the view map and the view order; removes that
\* view's buffer, and no other, exactly when no remaining view shows it; makes
\* the last view of the resulting order the current one; leaves every other
\* view and buffer as it was; and returns Redraw.
C20_DeleteCurrentView ==
    (call.command.op = "DeleteBuffer" /\ Cardinality(DOMAIN call.editor.views) >= 2) =>
        LET old == call.editor
            cur == old.current_view
            buf == old.views[cur].buffer_id
        IN  /\ ViewIds = DOMAIN old.views \ {cur}
            /\ editor.view_order = SelectSeq(old.view_order, LAMBDA id : id # cur)
            /\ BufferIds \cup {buf} = DOMAIN old.buffers
            /\ buf \in BufferIds <=> \E v \in ViewIds : editor.views[v].buffer_id = buf
            /\ editor.current_view = editor.view_order[Len(editor.view_order)]
            /\ \A v \in ViewIds : editor.views[v] = old.views[v]
            /\ \A b \in BufferIds : editor.buffers[b] = old.buffers[b]
            /\ editor.next_view_id = old.next_view_id
            /\ editor.next_buffer_id = old.next_buffer_id
            /\ call.events = <<Redraw>>
            /\ ~crashed

\* the first of three views was the current one and was deleted; the two left
\* keep their order and the later one is current
C20_Witness ==
    /\ call.command.op = "DeleteBuffer"
    /\ Cardinality(DOMAIN call.editor.views) = 3
    /\ call.editor.current_view = call.editor.view_order[1]
    /\ Len(editor.view_order) = 2
    /\ editor.current_view = editor.view_order[2]
    /\ \E b \in BufferIds : editor.buffers[b].rope # <<>>

\* n times next_view
RECURSIVE NextViewTimes(_, _)
NextViewTimes(e, n) == IF n = 0 THEN e ELSE NextViewTimes(next_view(e), n - 1)

\* C21: view_order lists exactly the keys of the view map, each once;
\* NextBuffer makes the view after the current one in the order current, the
\* first after the last, and PreviousBuffer the one before it, the last before
\* the first, and they change nothing else; next_view then prev_view gives the
\* current view again, and so does next_view once for every view.
C21_ViewOrderCycle ==
    /\ {editor.view_order[i] : i \in 1..Len(editor.view_order)} = ViewIds
    /\ Len(editor.view_order) = Cardinality(ViewIds)
    /\ LET old == call.editor
           n == Len(old.view_order)
           i == IndexOf(old.view_order, old.current_view)
       IN  /\ call.command.op = "NextBuffer" =>
                  /\ editor = [old EXCEPT !.current_view =
                                   old.view_order[IF i = n THEN 1 ELSE i + 1]]
                  /\ call.events = <<Redraw>>
           /\ call.command.op = "PreviousBuffer" =>
                  /\ editor = [old EXCEPT !.current_view =
                                   old.view_order[IF i = 1 THEN n ELSE i - 1]]
                  /\ call.events = <<Redraw>>
    /\ prev_view(next_view(editor)) = editor
    /\ next_view(prev_view(editor)) = editor
    /\ NextViewTimes(editor, Cardinality(ViewIds)) = editor

\* NextBuffer went from the last of three views to the first, in an order
\* that is no longer the order of the ids
C21_Witness ==
    /\ call.command.op = "NextBuffer"
    /\ Len(editor.view_order) = 3
    /\ call.editor.current_view = editor.view_order[3]
    /\ editor.current_view = editor.view_order[1]
    /\ editor.view_order[1] # 0

\* the last command created a buffer: NewBuffer, or OpenFile that read its file
Created ==
    \/ call.command.op = "NewBuffer"
    \/ call.command.op = "OpenFile" /\ ~OneError

\* C22: NewBuffer and a successful OpenFile add one buffer, unmodified (empty,
\* or with the file's text and path), and one view of it with cursor and
\* scroll 0, put that view last in the view order and make it current, and
\* leave the buffers and views there were as they were; no other command adds
\* a buffer or a view.
C22_BufferCreatedWithView ==
    LET old == call.editor
        b == old.next_buffer_id
        v == old.next_view_id
    IN  IF Created
        THEN /\ b \notin DOMAIN old.buffers
             /\ v \notin DOMAIN old.views
             /\ BufferIds = DOMAIN old.buffers \cup {b}
             /\ ViewIds = DOMAIN old.views \cup {v}
             /\ editor.views[v] = [buffer_id |-> b, cursor |-> 0, scroll_line |-> 0,
                                   scroll_column |-> 0, desired_column |-> <<>>]
             /\ ~editor.buffers[b].modified
             /\ call.command.op = "NewBuffer" =>
                    (editor.buffers[b] = BufferNew /\ call.events = <<Redraw>>)
             /\ call.command.op = "OpenFile" =>
                    /\ call.disk[call.command.path] = <<editor.buffers[b].rope>>
                    /\ editor.buffers[b].filepath = <<call.command.path>>
                    /\ call.events = <<Info(<<"Opened", call.command.path>>), Redraw>>
             /\ editor.view_order = Append(old.view_order, v)
             /\ editor.current_view = v
             /\ \A id \in DOMAIN old.buffers : editor.buffers[id] = old.buffers[id]
             /\ \A id \in DOMAIN old.views : editor.views[id] = old.views[id]
        ELSE /\ BufferIds \subseteq DOMAIN old.buffers
             /\ ViewIds \subseteq DOMAIN old.views

\* OpenFile read a file into a second buffer next to a modified first one
C22_Witness ==
    /\ call.command.op = "OpenFile"
    /\ ~OneError
    /\ Cardinality(ViewIds) = 2
    /\ get_current_buffer(editor).rope = <<"a", "\n">>
    /\ \E v \in ViewIds \ {editor.current_view} :
         editor.buffers[editor.views[v].buffer_id].modified

\* C23: the ids handed out grow: a buffer or view a command creates gets an
\* id that is at least the next id of the editor before the command, which is
\* above every id handed out until then; the next ids never go down, and stay
\* above every live id, so the id of a deleted buffer or view is not used again.
C23_IdsNeverReused ==
    LET old == call.editor
    IN  /\ \A b \in BufferIds : b < editor.next_buffer_id
        /\ \A v \in ViewIds : v < editor.next_view_id
        /\ \A b \in DOMAIN old.buffers : b < old.next_buffer_id
        /\ \A v \in DOMAIN old.views : v < old.next_view_id
        /\ editor.next_buffer_id >= old.next_buffer_id
        /\ editor.next_view_id >= old.next_view_id
        /\ \A b \in BufferIds \ DOMAIN old.buffers : b >= old.next_buffer_id
        /\ \A v \in ViewIds \ DOMAIN old.views : v >= old.next_view_id
        /\ \A i, j \in 1..Len(editor.view_order) :
             i # j => editor.view_order[i] # editor.view_order[j]

\* a buffer was created after the buffer with the id below it was deleted
C23_Witness ==
    /\ Created
    /\ call.editor.next_buffer_id = 2
    /\ 1 \notin DOMAIN call.editor.buffers
    /\ 1 \notin DOMAIN call.editor.views
    /\ 2 \in BufferIds
    /\ 2 \in ViewIds

\* every variant of EditorInput, with the arguments of the bounds
EditorInputs ==
    {Plain(op) : op \in {"InsertNewLine", "DeleteChar", "DeleteRange", "Backspace", "Undo",
                         "Redo", "Save", "NewBuffer", "DeleteBuffer", "NextBuffer",
                         "PreviousBuffer"}}
    \cup {InsertChar(c) : c \in Chars}
    \cup {InsertString(<<c>>) : c \in Chars}
    \cup {Move(op, n) : op \in {"MoveUp", "MoveDown", "MoveLeft", "MoveRight"}, n \in 0..MaxCount}
    \cup {SaveAs(path) : path \in Paths}
    \cup {OpenFile(path) : path \in Paths}

\* two views of the editor e show the same buffer
SharesBuffer(e) ==
    \E v, w \in DOMAIN e.views : v # w /\ e.views[v].buffer_id = e.views[w].buffer_id

\* every view of the editor shows a buffer no other view shows
ViewsOfDistinctBuffers == ~SharesBuffer(editor)

\* C24 as stated: two views can be created onto the same buffer, so an editor
\* that has room for another view accepts some command after which two of its
\* views reference the same buffer.
C24_ViewsShareBuffer ==
    (~crashed /\ Cardinality(ViewIds) < MaxViews) =>
        \E command \in EditorInputs : \E io \in CommandIo(command) :
            SharesBuffer(execute_command(editor, disk, command, io).editor)

\* the keys the key table of the specification lists: a character key without
\* Ctrl, Alt or Meta, an arrow key, Backspace, Delete, Enter, Tab, and the
\* chords Ctrl-s, Ctrl-w, Ctrl-n, Ctrl-d, Ctrl-h, Ctrl-l and Ctrl-c
Listed(key) ==
    \/ key.code = "Char" /\ ~key.ctrl /\ ~key.alt /\ ~key.meta
    \/ key.code \in {"Left", "Right", "Up", "Down", "Backspace", "Delete", "Enter", "Tab"}
    \/ key.code = "Char" /\ key.ch \in {"s", "w", "n", "d", "h", "l", "c"} /\ Ctrl(key)

\* the redraw chord Ctrl-r
RedrawChord(key) == key.code = "Char" /\ key.ch = "r" /\ Ctrl(key)

\* the last call of process_key returned no event and changed nothing
Ignored ==
    /\ call.events = <<>>
    /\ editor = call.editor
    /\ disk = call.disk
    /\ ~crashed

\* C25 as stated: process_key ignores every key the key table does not list.
C25_UnlistedKeysIgnored == ~Listed(call.key) => Ignored

\* C25, amended: process_key ignores every key the key table does not list
\* except the redraw chord Ctrl-r, for which it returns one Redraw event and
\* changes nothing.
C25_UnlistedKeysIgnoredButRedraw ==
    /\ (~Listed(call.key) /\ ~RedrawChord(call.key)) => Ignored
    /\ RedrawChord(call.key) =>
           /\ call.events = <<Redraw>>
           /\ editor = call.editor
           /\ disk = call.disk
           /\ ~crashed

\* Ctrl-Alt-n was pressed with two views open and text in the current buffer
C25_Witness ==
    /\ call.key = Key("Char", "n", TRUE, TRUE, FALSE, FALSE)
    /\ Cardinality(ViewIds) = 2
    /\ get_current_buffer(editor).rope = <<"a">>
    /\ Ignored

\* C26: Ctrl-c makes process_key return the one event Shutdown and leaves the
\* buffers, the views, the view order and the current view (and the files) as
\* they were.
C26_ShutdownChord ==
    (call.key.code = "Char" /\ call.key.ch = "c" /\ Ctrl(call.key)) =>
        /\ call.events = <<Shutdown>>
        /\ editor.buffers = call.editor.buffers
        /\ editor.views = call.editor.views
        /\ editor.view_order = call.editor.view_order
        /\ editor.current_view = call.editor.current_view
        /\ disk = call.disk
        /\ ~crashed

\* Ctrl-c was pressed with two views open and a modified current buffer
C26_Witness ==
    /\ call.key = CtrlKey("c")
    /\ call.events = <<Shutdown>>
    /\ Cardinality(ViewIds) = 2
    /\ get_current_buffer(editor).modified
    /\ get_current_buffer(editor).rope = <<"\n">>

\* C27: Message::encode gives four bytes, the length N of the payload with the
\* high byte first, and then the N bytes of the payload; decoding these N
\* bytes gives the message that was encoded, for KeyPress and for StateUpdate.
C27_EncodeDecode ==
    /\ call.stage # "message" =>
           /\ Len(call.frame) >= PrefixLen
           /\ from_be_bytes(SubSeq(call.frame, 1, PrefixLen)) = Len(call.frame) - PrefixLen
           /\ \A i \in 1..Len(call.frame) : call.frame[i] \in 0..255
    /\ call.stage = "decoded" =>
           /\ call.decoded.ok
           /\ call.decoded.message = call.message

\* a StateUpdate with events, lines, a file path and numbers of one, three and
\* five bytes went through encode and decode
C27_Witness ==
    /\ call.stage = "decoded"
    /\ call.message.type = "StateUpdate"
    /\ call.message.events = <<Info(<<>>), Redraw>>
    /\ Len(call.message.render_data.lines) = 3
    /\ call.message.info.filepath # <<>>
    /\ call.message.info.cursor.line = 251
    /\ call.message.info.char_count = 65536
    /\ call.decoded.message = call.message

\* the final tokens of the grammar of key specifications, with the <<code, ch>>
\* they name: the special keys, F1 to F12, and single characters
FunctionKeyNames ==
    {<<<<"F", "1">>, "1">>,
     <<<<"F", "2">>, "2">>,
     <<<<"F", "3">>, "3">>,
     <<<<"F", "4">>, "4">>,
     <<<<"F", "5">>, "5">>,
     <<<<"F", "6">>, "6">>,
     <<<<"F", "7">>, "7">>,
     <<<<"F", "8">>, "8">>,
     <<<<"F", "9">>, "9">>,
     <<<<"F", "1", "0">>, "10">>,
     <<<<"F", "1", "1">>, "11">>,
     <<<<"F", "1", "2">>, "12">>}

GrammarChars == {"x", "U+00E9", "F", "-", "C", "M", "S", "s"}

FinalTokens ==
    {<<nk[1], <<nk[2], "">>>> : nk \in NamedKeys}
    \cup {<<fk[1], <<"F", fk[2]>>>> : fk \in FunctionKeyNames}
    \cup {<<<<ch>>, <<"Char", ch>>>> : ch \in GrammarChars}

\* the strings of the grammar with up to MaxParts - 1 modifier prefixes, and
\* the key each stands for
GrammarKeys ==
    {[str |-> join([i \in 1..(Len(ms) + 1) |->
                        IF i <= Len(ms) THEN ms[i][1] ELSE final[1]], "-"),
      key |-> Key(final[2][1], final[2][2],
                  \E i \in 1..Len(ms) : ms[i][2] = "ctrl",
                  \E i \in 1..Len(ms) : ms[i][2] = "alt",
                  \E i \in 1..Len(ms) : ms[i][2] = "shift",
                  \E i \in 1..Len(ms) : ms[i][2] = "meta")] :
        ms \in {<<>>} \cup Tuples(ModifierNames, MaxParts - 1), final \in FinalTokens}

\* C28 as stated: a key specification parses exactly when it is modifier
\* prefixes (Ctrl/C, Alt/M, Shift/S, Super/s) joined by - and a final token
\* that is a named key, F1..F12 or a single character, and then to the key
\* with those modifiers and that code; every other string is rejected.
C28_KeyGrammar ==
    call.stage = "key" =>
        LET matches == {g \in GrammarKeys : g.str = call.str} IN
        IF matches = {} THEN ~call.result.ok
        ELSE /\ call.result.ok
             /\ \A g \in matches : call.result.val = g.key

\* C29: a key sequence parses to the keys of its whitespace-separated tokens,
\* in order, each as from_str gives it for the token alone; a string without a
\* token (empty or all whitespace) is rejected with Empty, and a string with
\* a token that does not parse with the error of the first such token.
C29_KeySequence ==
    call.stage = "keys" =>
        LET results == [i \in 1..Len(call.tokens) |-> EditorKey_from_str(call.tokens[i])]
            failing == {i \in 1..Len(call.tokens) : ~results[i].ok}
        IN  /\ call.tokens = <<>> =>
                   call.result = Rejected(<<>>, ParseKeyError("Empty", <<>>))
            /\ (call.tokens # <<>> /\ failing = {}) =>
                   /\ call.result.ok
                   /\ call.result.val = [i \in 1..Len(call.tokens) |-> results[i].val]
            /\ failing # {} =>
                   /\ ~call.result.ok
                   /\ call.result.err =
                          results[CHOOSE i \in failing : \A j \in failing : i <= j].err

\* a sequence of a key, a token with an unknown modifier and a token with an
\* unknown key was rejected
C29_Witness ==
    /\ call.stage = "keys"
    /\ call.tokens = <<<<"C", "-", "x">>, <<"Q", "-", "x">>, <<"F", "o", "o">>>>
    /\ call.result.err = ParseKeyError("UnknownModifier", <<"Q">>)

\* the columns of line l of buffer b: those of the positions of its offsets
ColumnsOfLine(b, l) ==
    {cursor_to_position(b, c).column :
        c \in {d \in 0..len_chars(b.rope) : cursor_to_position(b, d).line = l}}

\* the position asked of position_to_cursor, and the position of its answer
AskedPos == call.pos[1]
AnswerPos == cursor_to_position(call.buffer, call.cursor)

\* the offset returned lies on the line asked for, at a column no greater than
\* the one asked for
OnLineAskedFor ==
    /\ call.cursor \in 0..len_chars(call.buffer.rope)
    /\ AnswerPos.line = AskedPos.line
    /\ AnswerPos.column <= AskedPos.column

\* C30 as stated: for a position whose line exists, position_to_cursor returns
\* an offset on that line at a column no greater than the column asked for,
\* and a column beyond the line is clamped to the last column the line has.
C30_ClampToLine ==
    call.log # <<>> =>
        LET last == CHOOSE m \in ColumnsOfLine(call.buffer, AskedPos.line) :
                        \A k \in ColumnsOfLine(call.buffer, AskedPos.line) : k <= m
        IN  /\ OnLineAskedFor
            /\ AskedPos.column > last => AnswerPos.column = last

(***************************************************************************)
(* The buffer's four move functions on their own: any sequence of calls    *)
(* from any text and cursor, each call logged with the cursor it was given *)
(* and the Option it returned.                                             *)
(***************************************************************************)
MoveOps == {"MoveLeft", "MoveRight", "MoveUp", "MoveDown"}

InitMoves ==
    /\ editor = EditorNew
    /\ disk = [path \in Paths |-> <<>>]
    /\ crashed = FALSE
    /\ ServerIdle
    /\ \E t \in Texts(MaxStart) : \E c \in 0..Len(t) :
         call = [buffer |-> [BufferNew EXCEPT !.rope = t], cursor |-> c, log |-> <<>>]

\* one move function; the caller keeps its cursor when the function returns None
CallMoveFn(op) ==
    /\ Len(call.log) < MaxCalls
    /\ LET r == MoveFn(call.buffer, op, call.cursor) IN
       call' = [call EXCEPT !.cursor = IF r = <<>> THEN call.cursor ELSE r[1],
                            !.log = Append(@, [op |-> op, from |-> call.cursor, result |-> r])]
    /\ UNCHANGED <<edVars, srvVars>>

NextMoves == \E op \in MoveOps : CallMoveFn(op)

SpecMoves == InitMoves /\ [][NextMoves]_vars

\* C31: move_left then move_right from an offset c with 0 < c < length returns
\* c; move_left at 0 and move_right at the length return None; on an empty
\* buffer all four moves return None.
C31_LeftRightRoundTrip ==
    LET length == len_chars(call.buffer.rope) IN
    /\ \A i \in 1..Len(call.log) :
         LET m == call.log[i] IN
         /\ (m.op = "MoveLeft" /\ m.from = 0) => m.result = <<>>
         /\ (m.op = "MoveRight" /\ m.from = length) => m.result = <<>>
         /\ length = 0 => m.result = <<>>
    /\ \A i \in 1..(Len(call.log) - 1) :
         LET m == call.log[i]
             n == call.log[i + 1]
         IN  (m.op = "MoveLeft" /\ n.op = "MoveRight" /\ 0 < m.from /\ m.from < length)
                => /\ m.result # <<>>
                   /\ n.from = m.result[1]
                   /\ n.result = <<m.from>>

\* a round trip from the middle of a text, and a refused move at each end
C31_Witness ==
    /\ Len(call.log) = 4
    /\ call.log[1].op = "MoveLeft" /\ call.log[1].from = 1 /\ call.log[2].op = "MoveRight"
    /\ call.log[2].result = <<1>>
    /\ call.log[3].op = "MoveLeft" /\ call.log[3].result = <<0>>
    /\ call.log[4].op = "MoveLeft" /\ call.log[4].result = <<>>
    /\ len_chars(call.buffer.rope) > 1

(***************************************************************************)
(* Runs of vertical moves in the editor: a file's text in the one buffer,  *)
(* the cursor walked to any offset with MoveRight(1), then MoveUp and      *)
(* MoveDown commands, each logged with the positions it left and reached.  *)
(***************************************************************************)
\* longest text of the vertical specification
MaxLinesText == 5
\* most vertical commands in one run
MaxRun == 2

\* Editor::with_file on a file that can be read
with_file(path, d) == [EditorNew EXCEPT !.buffers[0] = from_file(path, d, "ok").buffer]

\* where the current view's cursor is in its buffer
CursorPosition(e) == cursor_to_position(get_current_buffer(e), get_current_view(e).cursor)

InitVertical ==
    /\ \E t \in Texts(MaxLinesText) : disk = [path \in Paths |-> <<t>>]
    /\ editor = with_file("untitled.txt", disk)
    /\ crashed = FALSE
    /\ ServerIdle
    /\ call = [log |-> <<>>]

\* MoveRight(1) before the run starts
PlaceCursor ==
    /\ call.log = <<>>
    /\ get_current_view(editor).cursor < len_chars(get_current_buffer(editor).rope)
    /\ editor' = execute_command(editor, disk, Move("MoveRight", 1), "ok").editor
    /\ UNCHANGED <<disk, crashed, srvVars, call>>

\* MoveUp(n) or MoveDown(n)
MoveVertically(op, n) ==
    /\ Len(call.log) < MaxRun
    /\ LET r == execute_command(editor, disk, Move(op, n), "ok") IN
       /\ editor' = r.editor
       /\ call' = [log |-> Append(call.log, [op |-> op, n |-> n, from |-> CursorPosition(editor),
                                             to |-> CursorPosition(r.editor)])]
    /\ UNCHANGED <<disk, crashed, srvVars>>

NextVertical ==
    \/ PlaceCursor
    \/ \E op \in {"MoveUp", "MoveDown"} : \E n \in 1..MaxCount : MoveVertically(op, n)

SpecVertical == InitVertical /\ [][NextVertical]_vars

\* the characters of a line of the current buffer, its line break not counted
LineLength(l) == Len(StripBreak(line(get_current_buffer(editor).rope, l)))

\* C32: a run of moves down (or up) that starts at column c, passes a line
\* shorter than c and reaches a line of length at least c ends at column c,
\* as one command with a count or as single commands.
C32_StickyColumn ==
    \A j \in 1..Len(call.log) :
        LET c == call.log[1].from.column
            first == call.log[1].from.line
            last == call.log[j].to.line
            passed == {l \in 0..(len_lines(get_current_buffer(editor).rope) - 1) :
                          (first < l /\ l < last) \/ (last < l /\ l < first)}
        IN  (/\ \A i \in 1..j : call.log[i].op = call.log[1].op
             /\ \E l \in passed : LineLength(l) < c
             /\ LineLength(last) >= c)
                => call.log[j].to.column = c

(***************************************************************************)
(* One client typing Enter until the text has more lines than the server's *)
(* fixed viewport: handle_client as above, the client scripted.            *)
(***************************************************************************)
\* the Enter keys the client sends
MaxEnters == 24

\* the client writes one more Enter key
EnterSend(c) ==
    /\ pc[c] # "connecting"
    /\ tail[c] = -1
    /\ Len(sent[c]) < MaxEnters
    /\ sent' = [sent EXCEPT ![c] = Append(@, KeyPress(PlainKey("Enter")))]
    /\ UNCHANGED <<call, edVars, pc, rd, tail, message, protocol_events, response, out, lock,
                   listener, applied, afterKey>>

NextScroll ==
    \/ EnterSend("A")
    \/ Accept("A")
    \/ ReadLen("A")
    \/ ReadBody("A")
    \/ AcquireWrite("A")
    \/ HandleKey("A")
    \/ SnapshotKey("A")
    \/ Send("A")

SpecScroll == InitServer /\ [][NextScroll]_vars

\* C33: in every StateUpdate the server has sent, the cursor's line is inside
\* the viewport: viewport_start <= cursor.line < viewport_start + viewport_height.
C33_CursorInViewport ==
    \A c \in Conns : \A i \in 1..Len(out[c]) :
        out[c][i].type = "StateUpdate" =>
            LET data == out[c][i].render_data IN
            /\ data.viewport_start <= data.cursor.line
            /\ data.cursor.line < data.viewport_start + data.viewport_height

(***************************************************************************)
(* The editor with a viewport: a file's text in the first buffer, moves    *)
(* and view commands, and adjust_scroll with any small viewport size, the  *)
(* last call of adjust_scroll kept with the editor it found.               *)
(***************************************************************************)
\* largest viewport width and height
MaxViewport == 2

\* the commands of the viewport specification
ScrollCommands ==
    {Move(op, 1) : op \in MoveOps} \cup {OpenFile("untitled.txt"), Plain("NextBuffer")}

InitAdjust ==
    /\ \E t \in Texts(MaxStart) : disk = [path \in Paths |-> <<t>>]
    /\ editor = with_file("untitled.txt", disk)
    /\ crashed = FALSE
    /\ ServerIdle
    /\ call = [op |-> "with_file", viewport_width |-> 0, viewport_height |-> 0, editor |-> editor]

RunScrollCommand ==
    /\ \E command \in ScrollCommands :
         LET r == execute_command(editor, disk, command, "ok") IN
         /\ Cardinality(DOMAIN r.editor.views) <= MaxViews
         /\ editor' = r.editor
         /\ call' = [op |-> "execute_command", viewport_width |-> 0, viewport_height |-> 0,
                     editor |-> r.editor]
    /\ UNCHANGED <<disk, crashed, srvVars>>

AdjustScroll ==
    /\ \E viewport_width \in 1..MaxViewport : \E viewport_height \in 1..MaxViewport :
         /\ editor' = adjust_scroll(editor, viewport_width, viewport_height)
         /\ call' = [op |-> "adjust_scroll", viewport_width |-> viewport_width,
                     viewport_height |-> viewport_height, editor |-> editor]
    /\ UNCHANGED <<disk, crashed, srvVars>>

\* get_render_data with any first line and height, the snapshot kept
GetRenderData ==
    /\ \E viewport_start \in 0..MaxStart : \E viewport_height \in 1..MaxViewport :
         call' = [op |-> "get_render_data", viewport_width |-> 0,
                  viewport_height |-> viewport_height, editor |-> editor,
                  viewport_start |-> viewport_start,
                  data |-> get_render_data(editor, viewport_start, viewport_height)]
    /\ UNCHANGED <<edVars, srvVars>>

NextAdjust == RunScrollCommand \/ AdjustScroll \/ GetRenderData

SpecAdjust == InitAdjust /\ [][NextAdjust]_vars

\* the current view's cursor is inside its viewport of the size given
CursorVisible(e, viewport_width, viewport_height) ==
    LET view == get_current_view(e)
        pos == CursorPosition(e)
    IN  /\ view.scroll_line <= pos.line
        /\ pos.line < view.scroll_line + viewport_height
        /\ view.scroll_column <= pos.column
        /\ pos.column < view.scroll_column + viewport_width

\* C34: after adjust_scroll(width, height), width and height at least 1, the
\* current view's cursor is inside the viewport in lines and in columns; if it
\* was inside already the offsets are unchanged, so a second call changes
\* nothing; buffers, the cursor and the other views are never changed.
C34_AdjustScroll ==
    call.op = "adjust_scroll" =>
        LET before == call.editor
            current == editor.current_view
        IN  /\ CursorVisible(editor, call.viewport_width, call.viewport_height)
            /\ CursorVisible(before, call.viewport_width, call.viewport_height) => editor = before
            /\ adjust_scroll(editor, call.viewport_width, call.viewport_height) = editor
            /\ editor.buffers = before.buffers
            /\ editor.views[current].cursor = before.views[current].cursor
            /\ editor.views[current].buffer_id = before.views[current].buffer_id
            /\ \A v \in DOMAIN before.views : v # current => editor.views[v] = before.views[v]
            /\ DOMAIN editor.views = DOMAIN before.views
            /\ editor.view_order = before.view_order
            /\ current = before.current_view

\* adjust_scroll has just moved both offsets of one view to a cursor that was
\* below and right of the viewport, another view being scrolled already
C34_Witness ==
    /\ call.op = "adjust_scroll"
    /\ get_current_view(call.editor).scroll_line = 0
    /\ get_current_view(editor).scroll_line > 0
    /\ \E v \in DOMAIN editor.views : v # editor.current_view /\ editor.views[v].scroll_column > 0

\* lines first .. first + height - 1 of buffer b, as far as it has them, each
\* without its line break
RECURSIVE LinesOf(_, _, _)
LinesOf(b, first, height) ==
    IF height = 0 \/ first >= len_lines(b.rope) THEN <<>>
    ELSE <<StripBreak(line(b.rope, first))>> \o LinesOf(b, first + 1, height - 1)

\* C35: in every snapshot get_render_data returns, the lines are lines
\* scroll_line .. scroll_line + height - 1 of the current view's buffer, and
\* viewport_start is the number of the first line returned.
C35_RenderSnapshot ==
    call.op = "get_render_data" =>
        LET b == get_current_buffer(editor) IN
        /\ call.data.lines = LinesOf(b, get_current_view(editor).scroll_line, call.viewport_height)
        /\ call.data.lines = LinesOf(b, call.data.viewport_start, call.viewport_height)

\* connection c's handler holds a guard of the editor's lock
HoldsEditor(c) == lock.writer = <<c>> \/ c \in lock.readers

\* where a handler is between decoding a frame and having built its response,
\* a guard acquired
InsideArm == {"process_key", "snapshot", "snapshot_read"}

\* C36: a handler holds a guard of the Editor only between decoding a frame
\* and building its response: none before it is accepted, while it waits for
\* a length prefix or a body or for the lock, while it writes its response,
\* or after it has returned, with Ok or with an error; so a handler waiting
\* for the lock is never kept from it by handlers that are not inside an arm.
C36_LockOnlyInsideArm ==
    /\ \A c \in Conns : HoldsEditor(c) => pc[c] \in InsideArm
    /\ \A c \in Conns :
         (pc[c] = "lock_write" /\ \A d \in Conns \ {c} : pc[d] \notin InsideArm)
            => ENABLED AcquireWrite(c)
    /\ \A c \in Conns :
         (pc[c] = "lock_read" /\ \A d \in Conns \ {c} : pc[d] \notin InsideArm)
            => ENABLED AcquireRead(c)

\* B holds the write guard while A, answered once, waits for a frame its
\* client has not sent
C36_Witness ==
    /\ lock.writer = <<"B">>
    /\ pc["A"] = "read_len" /\ rd["A"] = Len(sent["A"]) /\ tail["A"] = -1
    /\ Len(out["A"]) > 0

(***************************************************************************)
(* The server under fair scheduling: the tokio runtime runs every handler  *)
(* that can take a step, the lock (tokio::sync::RwLock, a fair queue)      *)
(* reaches every handler that waits for it, and process_key's file I/O     *)
(* ends. Connections may be reset while a handler reads; a connection      *)
(* whose client still reads takes every response written to it.            *)
(***************************************************************************)
\* a read of the connection fails with an I/O error other than end-of-stream
ConnReset(c) ==
    /\ pc[c] \in {"read_len", "read_body"}
    /\ ConnError(c)

\* what the clients send: an edit, Ctrl-s (a file write under the lock), a
\* ClientStart, and a payload that does not decode
LivePayloads == {KeyPress(CharKey("a")), KeyPress(CtrlKey("s")), ClientStart, Garbage}

LiveSend(c) ==
    /\ pc[c] # "connecting"
    /\ tail[c] = -1
    /\ FramesSent < MaxFrames
    /\ \E payload \in LivePayloads : sent' = [sent EXCEPT ![c] = Append(@, payload)]
    /\ UNCHANGED <<call, edVars, pc, rd, tail, message, protocol_events, response, out, lock,
                   listener, applied, afterKey>>

NextLive ==
    \E c \in Conns :
        \/ LiveSend(c)
        \/ ClientClose(c)
        \/ Accept(c)
        \/ ReadLen(c)
        \/ ReadBody(c)
        \/ AcquireWrite(c)
        \/ HandleKey(c)
        \/ SnapshotKey(c)
        \/ AcquireRead(c)
        \/ SnapshotStart(c)
        \/ Send(c)
        \/ ConnReset(c)

HandlerFairness(c) ==
    /\ WF_vars(ReadLen(c))
    /\ WF_vars(ReadBody(c))
    /\ SF_vars(AcquireWrite(c))
    /\ WF_vars(HandleKey(c))
    /\ WF_vars(SnapshotKey(c))
    /\ SF_vars(AcquireRead(c))
    /\ WF_vars(SnapshotStart(c))
    /\ WF_vars(Send(c))

SpecLive == InitServer /\ [][NextLive]_vars /\ \A c \in Conns : HandlerFairness(c)

\* the responses the handler owes for the first i frames of connection c
Owed(c, i) ==
    Cardinality({j \in 1..i : sent[c][j].type \in {"KeyPress", "ClientStart", "ServerStatusCheck"}})

\* frame i of connection c is a KeyPress the handler has read and decoded
KeyReceived(c, i) == i <= Len(sent[c]) /\ rd[c] >= i /\ sent[c][i].type = "KeyPress"

\* the response to frame i of connection c has been written, a StateUpdate
KeyAnswered(c, i) ==
    /\ i <= Len(sent[c])
    /\ Owed(c, i) >= 1
    /\ Len(out[c]) >= Owed(c, i)
    /\ out[c][Owed(c, i)].type = "StateUpdate"

\* C37: under fair scheduling and terminating file I/O, every KeyPress frame
\* a handler has received is eventually answered with a StateUpdate on its
\* connection, whatever the other connection does.
C37_KeyEventuallyAnswered ==
    \A c \in Conns : \A i \in 1..MaxFrames : KeyReceived(c, i) ~> KeyAnswered(c, i)

\* B's second key is answered after it waited for the lock that A held
C37_Witness ==
    /\ KeyReceived("B", 2) /\ KeyAnswered("B", 2)
    /\ \E k \in 1..Len(applied) : applied[k][1] = "A"
    /\ pc["A"] \in {"lock_write", "process_key", "snapshot"}

(***************************************************************************)
(* Edits and moves at every offset: a file's text in the one buffer, then  *)
(* any sequence of moves with a count, Backspace and DeleteChar, the last  *)
(* command kept with the editor it found.                                  *)
(***************************************************************************)
EditCommands ==
    {Move(op, n) : op \in MoveOps, n \in 0..MaxCount}
    \cup {Plain("Backspace"), Plain("DeleteChar")}

InitEdit ==
    /\ \E t \in Texts(MaxStart) : disk = [path \in Paths |-> <<t>>]
    /\ editor = with_file("untitled.txt", disk)
    /\ crashed = FALSE
    /\ ServerIdle
    /\ call = [command |-> Plain("None"), editor |-> editor]

RunEdit ==
    /\ \E command \in EditCommands :
         /\ editor' = execute_command(editor, disk, command, "ok").editor
         /\ call' = [command |-> command, editor |-> editor]
    /\ UNCHANGED <<disk, crashed, srvVars>>

NextEdit == RunEdit

SpecEdit == InitEdit /\ [][NextEdit]_vars

\* the editor after execute_command of a command that touches no file
Exec(e, command) == execute_command(e, disk, command, "ok").editor

\* the text and the cursor the current view shows
TextAndCursor(e) == <<get_current_buffer(e).rope, get_current_view(e).cursor>>

RECURSIVE Repeat(_, _, _)
Repeat(e, command, n) == IF n = 0 THEN e ELSE Repeat(Exec(e, command), command, n - 1)

Max(a, b) == IF a > b THEN a ELSE b

\* C39: a move with count n leaves the editor as n moves with count 1 leave
\* it; MoveLeft(n) ends at max(0, c - n), MoveRight(n) at min(length, c + n),
\* MoveUp(n) and MoveDown(n) stop at the first and the last line; count 0
\* leaves the cursor where it was.
C39_MoveCount ==
    call.command.op \in MoveOps =>
        LET op == call.command.op
            n == call.command.n
            before == call.editor
            c == get_current_view(before).cursor
            b == get_current_buffer(before)
            from == CursorPosition(before)
            to == CursorPosition(editor)
            cursor == get_current_view(editor).cursor
        IN  /\ editor = Repeat(before, Move(op, 1), n)
            /\ op = "MoveLeft" => cursor = Max(0, c - n)
            /\ op = "MoveRight" => cursor = Min(len_chars(b.rope), c + n)
            /\ op = "MoveUp" => to.line = Max(0, from.line - n)
            /\ op = "MoveDown" => to.line = Min(len_lines(b.rope) - 1, from.line + n)
            /\ n = 0 => cursor = c

\* MoveDown(2) has crossed two lines, and MoveRight(2) has stopped at the end
\* of the text after one step
C39_Witness ==
    \/ /\ call.command = Move("MoveDown", 2)
       /\ CursorPosition(call.editor).line = 0
       /\ CursorPosition(editor).line = 2
    \/ /\ call.command = Move("MoveRight", 2)
       /\ get_current_view(call.editor).cursor + 1 = len_chars(get_current_buffer(editor).rope)
       /\ get_current_view(editor).cursor = len_chars(get_current_buffer(editor).rope)

(***************************************************************************)
(* Two views on two buffers: every command that edits, moves or saves, and *)
(* the commands that make and switch views, the last command kept with the *)
(* editor it found.                                                        *)
(***************************************************************************)
\* the commands on the current view's buffer
CurrentBufferCommands ==
    {InsertChar("a"), InsertString(<<"a", "\n">>)}
    \cup {Plain(op) : op \in {"InsertNewLine", "DeleteChar", "Backspace", "Save"}}
    \cup {Move(op, 1) : op \in MoveOps}
    \cup {SaveAs(path) : path \in Paths}

\* the commands that switch the current view
SwitchCommands == {Plain("NextBuffer"), Plain("PreviousBuffer")}

FrameCommands ==
    CurrentBufferCommands \cup SwitchCommands
    \cup {Plain("NewBuffer")} \cup {OpenFile(path) : path \in Paths}

RunFrameCommand == Run(FrameCommands, MaxViews, MaxIds, MaxLen)

NextFrame == RunFrameCommand

SpecFrame == InitCommand /\ [][NextFrame]_vars

\* C40: an insert, delete-char, backspace, move, save or save-as changes only
\* the buffer of the current view and only the current view's cursor: every
\* other buffer (text, path, modified flag) and every other view (cursor,
\* scroll) is as it was, and which view is current and the order of the views
\* are as they were; a switch to another view changes no buffer and no view,
\* so the view switched to shows its buffer as it was left.
C40_OnlyCurrentBufferAndCursor ==
    LET before == call.editor
        current == before.current_view
        buffer_id == before.views[current].buffer_id
    IN  /\ call.command \in CurrentBufferCommands =>
            /\ DOMAIN editor.buffers = DOMAIN before.buffers
            /\ \A id \in DOMAIN before.buffers :
                   id # buffer_id => editor.buffers[id] = before.buffers[id]
            /\ DOMAIN editor.views = DOMAIN before.views
            /\ \A v \in DOMAIN before.views : v # current => editor.views[v] = before.views[v]
            /\ editor.views[current] = [before.views[current] EXCEPT
                                            !.cursor = editor.views[current].cursor]
            /\ editor.current_view = current
            /\ editor.view_order = before.view_order
        /\ call.command \in SwitchCommands =>
            /\ editor.buffers = before.buffers
            /\ editor.views = before.views
            /\ get_info(editor).modified = before.buffers[get_current_view(editor).buffer_id].modified

\* an insert into the second buffer has left the first, modified and not
\* empty, as it was, and the switch back shows it
C40_Witness ==
    \/ /\ call.command = InsertChar("a")
       /\ Cardinality(DOMAIN editor.buffers) = 2
       /\ editor # call.editor
       /\ \E id \in DOMAIN editor.buffers :
              /\ id # get_current_view(editor).buffer_id
              /\ editor.buffers[id].modified
              /\ editor.buffers[id].rope # <<>>
    \/ /\ call.command = Plain("PreviousBuffer")
       /\ editor.current_view # call.editor.current_view
       /\ get_info(editor).modified
       /\ ~get_current_buffer(call.editor).modified

====
